---- MODULE Spec2Model ----
(***************************************************************************)
(* Model of the otrade adaptive decision and risk engine:                  *)
(*   - NeuralTradingBrain (src/neural_brain.py): strategy weights, symbol  *)
(*     biases, pattern cache and their sqlite persistence;                 *)
(*   - RiskManager (src/risk_manager.py): daily counters, breaker, ledger; *)
(*   - MT5Connector in simulation mode (src/mt5_connector.py);             *)
(*   - TradingBot cycle (src/main.py).                                     *)
(*                                                                         *)
(* Floats are fixed point: weights in 1/1000, win rates in 1/1000000,      *)
(* money in cents.  Products and quotients round towards minus infinity.   *)
(***************************************************************************)
EXTENDS Integers, Sequences, FiniteSets, TLC

VARIABLES
    \* ---- NeuralTradingBrain, in memory
    LEARNING_RATE,      \* config.LEARNING_RATE, in 1/1000
    strategy_weights,   \* dict strategy -> weight (1/1000)
    symbol_biases,      \* dict symbol -> [win_rate, avg_profit, trades]
    pattern_cache,      \* dict pattern key -> [wins, losses, total_profit, occurrences]
    \* ---- brain.db
    brain_state,        \* table brain_state: dict key -> JSON document
    market_patterns,    \* table market_patterns: dict pattern_id -> row
    trade_memories,     \* table trade_memories: rows per market-state fingerprint
    \* ---- the clock
    today,              \* datetime.now().date(), as a day number
    \* ---- RiskManager, in memory
    last_reset,
    daily_trades,
    daily_pnl,          \* cents
    consecutive_losses,
    can_trade_result,   \* what can_trade returned to the last step, if it called it
    \* ---- trades.db
    trades,             \* table trades: dict ticket -> row (ticket is UNIQUE)
    next_id,            \* the next AUTOINCREMENT id of table trades
    daily_summary,      \* table daily_summary: dict date -> row
    account_history,    \* table account_history: number of rows
    \* ---- MT5Connector in simulation mode
    positions,          \* _positions
    order_counter,      \* _order_counter
    balance,            \* _balance, cents
    \* ---- TradingBot: position in _trading_cycle
    pc,                 \* "idle", "manage", "analyze"
    cycle_positions,    \* the list get_positions() returned to this cycle
    idx,                \* index of the position or symbol being processed
    calls,              \* the calls the last step of the cycle made, in order
    \* ---- one call of a pure function
    call,               \* its arguments
    ret                 \* what it returned, Null before the call

brainVars == <<LEARNING_RATE, strategy_weights, symbol_biases, pattern_cache,
               brain_state, market_patterns, trade_memories>>

riskVars == <<last_reset, daily_trades, daily_pnl, consecutive_losses,
              can_trade_result, trades, next_id, daily_summary, account_history>>

brokerVars == <<positions, order_counter, balance>>

botVars == <<pc, cycle_positions, idx, calls>>

pureVars == <<call, ret>>

engineVars == <<today, riskVars, brokerVars, botVars, pureVars>>

vars == <<brainVars, engineVars>>

----------------------------------------------------------------------------
(* Bounds *)

\* remember_trade calls per behaviour of SpecWeights
MaxTrades == 3
\* remember_trade calls per behaviour of SpecBias
MaxBiasTrades == 6
\* remember_trade calls per behaviour of SpecPatterns
MaxPatternTrades == 11
\* trading cycles per behaviour of Spec (rows of account_history)
MaxCycles == 3
\* the last calendar day of a behaviour of Spec
MaxDay == 1
\* orders placed per behaviour of Spec (rows ever inserted into trades)
MaxOpens == 2
\* trading cycles per behaviour of SpecStreak
MaxStreakCycles == 4
\* the last calendar day of a behaviour of SpecRisk
MaxRiskDay == 2
\* log_trade_open calls per behaviour of SpecRisk
MaxRiskOpens == 2
\* the range of daily_pnl in SpecRisk, in units of 100 cents either way
MaxDailyPnl == 2
\* the longest losing streak in SpecRisk
MaxLosses == 6
\* config.MAX_DAILY_TRADES as configured for the model
MAX_DAILY_TRADES == 2
\* config.MAX_OPEN_POSITIONS as configured for the model
MAX_OPEN_POSITIONS == 3

----------------------------------------------------------------------------
(* Generic helpers *)

Max(a, b) == IF a >= b THEN a ELSE b
Min(a, b) == IF a <= b THEN a ELSE b

EmptyDict == [k \in {} |-> 0]

\* d[k] = v, adding the key when absent
Put(d, k, v) == [x \in (DOMAIN d) \cup {k} |-> IF x = k THEN v ELSE d[x]]

\* dict.get(k, default)
Get(d, k, default) == IF k \in DOMAIN d THEN d[k] ELSE default

RECURSIVE SumOver(_, _)
SumOver(f, S) ==
    IF S = {} THEN 0
    ELSE LET x == CHOOSE y \in S : TRUE IN f[x] + SumOver(f, S \ {x})

----------------------------------------------------------------------------
(* Input domains *)

Symbols == {"XAUUSD", "USTECm"}
Directions == {"buy", "sell"}
SignalValues == {"buy", "sell", "hold"}
Strategies == {"MA Crossover", "RSI Reversal"}

\* realised profit of a closed position, in cents
Profits == {-100, 0, 100}

\* the profit _update_simulation gives an open position, in cents
PriceMoves == {-100, 100}
LosingMoves == {-100}

\* tickets passed to the RiskManager in SpecRisk
RiskTickets == {1000}

\* values of the LEARNING_RATE environment setting, in 1/1000:
\* the default 0.01, and 0.75
LearningRates == {10, 750}

\* every snapshot {s.strategy: s.signal.value for s in signals}: the
\* strategies that raised are missing from it
SignalSnapshots == UNION {[S -> SignalValues] : S \in SUBSET Strategies}

\* market states as built by TradingBot._build_market_state
MS_Bull == [regime |-> "trending_bullish", regime_confidence |-> 80,
            trends |-> [D1 |-> "bullish", H4 |-> "bullish", M15 |-> "neutral"],
            momentum |-> "bullish_momentum", volatility |-> "normal"]
MS_BullWeak == [regime |-> "trending_bullish", regime_confidence |-> 40,
            trends |-> [D1 |-> "bullish", H4 |-> "bullish", M15 |-> "bearish"],
            momentum |-> "bullish_momentum", volatility |-> "normal"]
MS_Range == [regime |-> "ranging", regime_confidence |-> 50,
            trends |-> [H1 |-> "neutral"],
            momentum |-> "neutral", volatility |-> "low"]
MS_Bear == [regime |-> "trending_bearish", regime_confidence |-> 80,
            trends |-> [D1 |-> "bearish", H4 |-> "strong_bearish", H1 |-> "bearish"],
            momentum |-> "bearish_momentum", volatility |-> "high"]
MarketStates == {MS_Bull, MS_BullWeak, MS_Range, MS_Bear}

----------------------------------------------------------------------------
(* NeuralTradingBrain: pure parts *)

W_DEFAULT == 1000
W_MIN == 100
W_MAX == 3000
WR_ONE == 1000000
WR_DEFAULT == 500000
PATTERN_MIN_OCCURRENCES == 5

\* _generate_pattern_key: regime, "tf:trend" for the timeframes of D1, H4, H1
\* that are present, momentum, volatility.  The 12 hex digits of the md5 are
\* modelled by the joined key elements themselves.
KeyTimeframes == <<"D1", "H4", "H1">>

RECURSIVE TrendElements(_, _)
TrendElements(trends, i) ==
    IF i > Len(KeyTimeframes) THEN <<>>
    ELSE (IF KeyTimeframes[i] \in DOMAIN trends
          THEN <<<<KeyTimeframes[i], trends[KeyTimeframes[i]]>>>>
          ELSE <<>>) \o TrendElements(trends, i + 1)

\* a key made of the trend of every timeframe of the state
GeneratePatternKeyAllTrends(market_state) ==
    <<market_state.regime, market_state.trends,
      market_state.momentum, market_state.volatility>>

\* the "|"-joined elements that _generate_pattern_key hashes
GeneratePatternKey(market_state) ==
    <<market_state.regime>> \o TrendElements(market_state.trends, 1)
        \o <<market_state.momentum, market_state.volatility>>

PatternKeys == {GeneratePatternKey(ms) : ms \in MarketStates}

\* the lower clamp alone
ClampNoUpper(w) == Max(W_MIN, w)

\* max(0.1, min(3.0, w))
Clamp(w) == Max(W_MIN, Min(W_MAX, w))

\* a rule that scores every trade as a win
ScaledWeightAsWin(w, outcome, signal, direction, lr) ==
    IF signal = direction
    THEN (w * (1000 + lr)) \div 1000
    ELSE (w * (2000 - lr)) \div 2000

\* a rule that penalises a dissenting strategy on a win by the full rate
ScaledWeightFullRate(w, outcome, signal, direction, lr) ==
    IF (outcome = "win") = (signal = direction)
    THEN (w * (1000 + lr)) \div 1000
    ELSE (w * (1000 - lr)) \div 1000

\* the multiplicative rule of _update_learning for one strategy
ScaledWeight(w, outcome, signal, direction, lr) ==
    IF outcome = "win"
    THEN IF signal = direction
         THEN (w * (1000 + lr)) \div 1000
         ELSE (w * (2000 - lr)) \div 2000
    ELSE IF signal = direction
         THEN (w * (1000 - lr)) \div 1000
         ELSE (w * (2000 + lr)) \div 2000

UpdatedWeights(weights, memory, lr) ==
    [s \in (DOMAIN weights) \cup (DOMAIN memory.strategy_signals) |->
        IF s \in DOMAIN memory.strategy_signals
        THEN Clamp(ScaledWeight(Get(weights, s, W_DEFAULT), memory.outcome,
                                memory.strategy_signals[s], memory.direction, lr))
        ELSE weights[s]]

DefaultBias == [win_rate |-> WR_DEFAULT, avg_profit |-> 0, trades |-> 0]

\* a fixed step of 0.1 instead of a tenth of the remaining gap
WinRateAdditive(old_wr, outcome) ==
    IF outcome = "win" THEN old_wr + WR_ONE \div 10 ELSE old_wr - WR_ONE \div 10

\* old_wr + (1 - old_wr) * 0.1 on a win, old_wr * 0.9 on a loss
UpdatedWinRate(old_wr, outcome) ==
    IF outcome = "win"
    THEN old_wr + (WR_ONE - old_wr) \div 10
    ELSE (old_wr * 9) \div 10

UpdatedBias(bias, memory) ==
    LET count == bias.trades + 1
    IN [win_rate |-> UpdatedWinRate(bias.win_rate, memory.outcome),
        avg_profit |-> bias.avg_profit + (memory.profit - bias.avg_profit) \div count,
        trades |-> count]

UpdatedBiases(biases, memory) ==
    Put(biases, memory.symbol, UpdatedBias(Get(biases, memory.symbol, DefaultBias), memory))

NewPattern == [wins |-> 0, losses |-> 0, total_profit |-> 0, occurrences |-> 0]

UpdatedPattern(pattern, memory) ==
    [wins |-> pattern.wins + (IF memory.outcome = "win" THEN 1 ELSE 0),
     losses |-> pattern.losses + (IF memory.outcome = "win" THEN 0 ELSE 1),
     total_profit |-> pattern.total_profit + memory.profit,
     occurrences |-> pattern.occurrences + 1]

UpdatedCache(cache, memory) ==
    LET key == GeneratePatternKey(memory.market_state)
    IN Put(cache, key, UpdatedPattern(Get(cache, key, NewPattern), memory))

\* the quality test alone, without the occurrence threshold
ShouldSavePatternEarly(pattern) ==
    \/ pattern.wins * 10 >= 6 * pattern.occurrences
    \/ pattern.total_profit > 0

\* occurrences >= 5 and (success_rate >= 0.6 or avg_profit > 0)
ShouldSavePattern(pattern) ==
    /\ pattern.occurrences >= PATTERN_MIN_OCCURRENCES
    /\ \/ pattern.wins * 10 >= 6 * pattern.occurrences
       \/ pattern.total_profit > 0

\* the row _save_pattern writes; success_rate in 1/1000, avg_profit in cents
PatternRow(pattern, market_state) ==
    [conditions |-> market_state,
     success_rate |-> (pattern.wins * 1000) \div pattern.occurrences,
     avg_profit |-> pattern.total_profit \div pattern.occurrences,
     occurrences |-> pattern.occurrences]

\* INSERT OR REPLACE INTO market_patterns, when the threshold is met
SavedPatterns(table, cache, memory) ==
    LET key == GeneratePatternKey(memory.market_state)
    IN IF ShouldSavePattern(cache[key])
       THEN Put(table, key, PatternRow(cache[key], memory.market_state))
       ELSE table

\* json.dumps of a dict: an object, a set of (name, value) members
JsonDumps(d) == {<<k, d[k]>> : k \in DOMAIN d}

\* json.loads of an object
JsonLoads(doc) ==
    [k \in {m[1] : m \in doc} |-> (CHOOSE m \in doc : m[1] = k)[2]]

\* _save_state: INSERT OR REPLACE of the serialised dicts
SavedState(weights, biases) ==
    [strategy_weights |-> JsonDumps(weights),
     symbol_biases |-> JsonDumps(biases)]

----------------------------------------------------------------------------
(* NeuralTradingBrain: operations *)

\* remember_trade: the INSERT into trade_memories, then _update_learning
\* (weights, bias, _detect_patterns, _save_state)
RememberTradeOp(memory) ==
    LET key == GeneratePatternKey(memory.market_state)
        weights == UpdatedWeights(strategy_weights, memory, LEARNING_RATE)
        biases == UpdatedBiases(symbol_biases, memory)
        cache == UpdatedCache(pattern_cache, memory)
    IN /\ trade_memories' = [trade_memories EXCEPT ![key] = @ + 1]
       /\ strategy_weights' = weights
       /\ symbol_biases' = biases
       /\ pattern_cache' = cache
       /\ market_patterns' = SavedPatterns(market_patterns, cache, memory)
       /\ brain_state' = SavedState(weights, biases)
       /\ UNCHANGED LEARNING_RATE

\* NeuralTradingBrain.__init__ on the existing brain.db: empty dicts, then
\* _load_learned_state reads brain_state
LoadedDict(key) ==
    IF key \in DOMAIN brain_state THEN JsonLoads(brain_state[key]) ELSE EmptyDict

BrainInitOp ==
    /\ pattern_cache' = EmptyDict
    /\ strategy_weights' = LoadedDict("strategy_weights")
    /\ symbol_biases' = LoadedDict("symbol_biases")
    /\ UNCHANGED <<LEARNING_RATE, brain_state, market_patterns, trade_memories>>

TradesLearned == SumOver(trade_memories, PatternKeys)

TradeMemory(symbol, direction, profit, market_state, strategy_signals, ai_reasoning) ==
    [symbol |-> symbol, direction |-> direction, profit |-> profit,
     market_state |-> market_state, strategy_signals |-> strategy_signals,
     ai_reasoning |-> ai_reasoning,
     outcome |-> IF profit > 0 THEN "win" ELSE "loss"]

----------------------------------------------------------------------------
(* RiskManager *)

max_consecutive_losses == 5

Null == <<>>

\* the rows of table trades with DATE(closed_at) = date
ClosedOn(ledger, date) == {t \in DOMAIN ledger : ledger[t].closed_at = <<date>>}

RECURSIVE SumProfit(_, _)
SumProfit(ledger, T) ==
    IF T = {} THEN 0
    ELSE LET t == CHOOSE x \in T : TRUE
         IN ledger[t].profit[1] + SumProfit(ledger, T \ {t})

\* the aggregate SELECT of _save_daily_summary
DailyAggregate(ledger, date) ==
    LET rows == ClosedOn(ledger, date)
        won == {t \in rows : ledger[t].profit[1] > 0}
        lost == {t \in rows : ledger[t].profit[1] <= 0}
        negative == {t \in rows : ledger[t].profit[1] < 0}
    IN [trades |-> Cardinality(rows),
        wins |-> Cardinality(won),
        losses |-> Cardinality(lost),
        gross_profit |-> SumProfit(ledger, won),
        gross_loss |-> SumProfit(ledger, negative),
        net_profit |-> SumProfit(ledger, won) + SumProfit(ledger, negative)]

\* a summary row written whatever the day held
SavedDailySummaryAlways(summary, ledger, date) ==
    Put(summary, date, DailyAggregate(ledger, date))

\* _save_daily_summary: INSERT OR REPLACE, only "if row and row[0]"
SavedDailySummary(summary, ledger, date) ==
    IF DailyAggregate(ledger, date).trades # 0
    THEN Put(summary, date, DailyAggregate(ledger, date))
    ELSE summary

\* the summary written under the new date: last_reset assigned before the flush
RolledSummaryResetFirst(summary, ledger, lastReset, now) ==
    SavedDailySummary(summary, ledger, now)

\* _reset_daily_if_needed, the table it leaves: the flush runs while
\* self.last_reset still holds the old date
RolledSummary(summary, ledger, lastReset, now) ==
    IF now # lastReset THEN SavedDailySummary(summary, ledger, lastReset) ELSE summary

\* _reset_daily_if_needed, the counters it leaves
RolledCounter(counter, lastReset, now) == IF now # lastReset THEN 0 ELSE counter

NoVerdict == [called |-> FALSE, ok |-> FALSE, reason |-> ""]

\* the daily cap tested with > instead of >=
CanTradeVerdictLate(dailyTrades, losses) ==
    IF dailyTrades > MAX_DAILY_TRADES
    THEN [called |-> TRUE, ok |-> FALSE, reason |-> "Daily trade limit reached"]
    ELSE IF losses >= max_consecutive_losses
    THEN [called |-> TRUE, ok |-> FALSE, reason |-> "Consecutive loss limit reached"]
    ELSE [called |-> TRUE, ok |-> TRUE, reason |-> ""]

\* can_trade after the rollover
CanTradeVerdict(dailyTrades, losses) ==
    IF dailyTrades >= MAX_DAILY_TRADES
    THEN [called |-> TRUE, ok |-> FALSE, reason |-> "Daily trade limit reached"]
    ELSE IF losses >= max_consecutive_losses
    THEN [called |-> TRUE, ok |-> FALSE, reason |-> "Consecutive loss limit reached"]
    ELSE [called |-> TRUE, ok |-> TRUE, reason |-> ""]

\* can_trade: _reset_daily_if_needed, then the verdict
CanTradeOp ==
    /\ daily_summary' = RolledSummary(daily_summary, trades, last_reset, today)
    /\ daily_trades' = RolledCounter(daily_trades, last_reset, today)
    /\ daily_pnl' = RolledCounter(daily_pnl, last_reset, today)
    /\ last_reset' = today
    /\ can_trade_result' = CanTradeVerdict(daily_trades', consecutive_losses)

\* the row log_trade_open inserts; the columns it does not name are NULL
OpenRow(id, symbol, direction, now) ==
    [id |-> id, symbol |-> symbol, direction |-> direction, profit |-> Null,
     opened_at |-> <<now>>, closed_at |-> Null, status |-> "open"]

\* INSERT OR REPLACE INTO trades: a row with the same ticket is deleted
LoggedOpen(ledger, ticket, row) == Put(ledger, ticket, row)

\* UPDATE trades SET ... WHERE ticket = ?
LoggedClose(ledger, ticket, profit, now) ==
    IF ticket \in DOMAIN ledger
    THEN [ledger EXCEPT ![ticket] =
            [@ EXCEPT !.profit = <<profit>>, !.closed_at = <<now>>, !.status = "closed"]]
    ELSE ledger

\* a counter that a break-even close resets as well
LossesAfterBreakEvenWin(losses, profit) == IF profit >= 0 THEN 0 ELSE losses + 1

LossesAfterClose(losses, profit) == IF profit > 0 THEN 0 ELSE losses + 1

\* log_trade_open, called with dailyTrades trades counted today
LogTradeOpenOp(ticket, symbol, direction, dailyTrades) ==
    /\ trades' = LoggedOpen(trades, ticket, OpenRow(next_id, symbol, direction, today))
    /\ next_id' = next_id + 1
    /\ daily_trades' = dailyTrades + 1

\* log_trade_close
LogTradeCloseOp(ticket, profit) ==
    /\ trades' = LoggedClose(trades, ticket, profit, today)
    /\ daily_pnl' = daily_pnl + profit
    /\ consecutive_losses' = LossesAfterClose(consecutive_losses, profit)

----------------------------------------------------------------------------
(* MT5Connector, simulation mode *)

FIRST_TICKET == 1000
INITIAL_DEPOSIT == 1000

\* _update_simulation: every position is repriced; profs are the new profits
Repriced(ps, profs) == [i \in 1..Len(ps) |-> [ps[i] EXCEPT !.profit = profs[i]]]

\* the positions left once the tickets in gone are closed
Without(ps, gone) == SelectSeq(ps, LAMBDA p : p.ticket \notin gone)

RECURSIVE ProfitOf(_, _)
\* the profit close_position adds to _balance for the tickets in gone
ProfitOf(ps, gone) ==
    IF ps = <<>> THEN 0
    ELSE (IF ps[1].ticket \in gone THEN ps[1].profit ELSE 0) + ProfitOf(Tail(ps), gone)

HasTicket(ps, ticket) == \E i \in 1..Len(ps) : ps[i].ticket = ticket

\* close_position(ticket): True when the ticket is in _positions
ClosePositionOp(ticket) ==
    /\ positions' = Without(positions, {ticket})
    /\ balance' = balance + ProfitOf(positions, {ticket})
    /\ UNCHANGED order_counter

\* _execute_order: the ticket is the counter, which then advances
ExecuteOrderOp(symbol, order_type) ==
    /\ positions' = Append(positions, [ticket |-> order_counter, symbol |-> symbol,
                                       type |-> order_type, profit |-> 0])
    /\ order_counter' = order_counter + 1
    /\ UNCHANGED balance

\* close_all_positions(symbol): get_positions reprices, then every position
\* of the symbol is closed
CloseAllPositionsOp(symbol, profs) ==
    LET priced == Repriced(positions, profs)
        gone == {priced[i].ticket : i \in {j \in 1..Len(priced) : priced[j].symbol = symbol}}
    IN /\ positions' = Without(priced, gone)
       /\ balance' = balance + ProfitOf(priced, gone)
       /\ UNCHANGED order_counter

----------------------------------------------------------------------------
(* AdvancedAIBrain.should_close_position *)

\* get_strategy_weight
StrategyWeight(weights, name) == Get(weights, name, W_DEFAULT)

RECURSIVE WeightSum(_, _)
WeightSum(weights, S) ==
    IF S = {} THEN 0
    ELSE LET s == CHOOSE x \in S : TRUE
         IN StrategyWeight(weights, s) + WeightSum(weights, S \ {s})

\* the signals left by "if sig.symbol != symbol: continue"
ForSymbol(symbol, signals) == {s \in DOMAIN signals : signals[s].symbol = symbol}

\* the opposing signals, whatever their confidence
OpposingAnyConfidence(position, signals) ==
    {s \in ForSymbol(position.symbol, signals) :
        \/ position.type = "buy" /\ signals[s].signal = "sell"
        \/ position.type = "sell" /\ signals[s].signal = "buy"}

\* the signals for the position's symbol that oppose it with confidence > 0.6
Opposing(position, signals) ==
    {s \in ForSymbol(position.symbol, signals) :
        /\ signals[s].confidence > 60
        /\ \/ position.type = "buy" /\ signals[s].signal = "sell"
           \/ position.type = "sell" /\ signals[s].signal = "buy"}

\* the two rules in the other order
ShouldClosePositionRegimeFirst(position, signals, regime, weights) ==
    LET total_weight == WeightSum(weights, ForSymbol(position.symbol, signals))
        opposing_count == WeightSum(weights, Opposing(position, signals))
    IN IF position.type = "buy" /\ regime.regime = "trending_bearish"
               /\ regime.regime_confidence > 70
       THEN [close |-> TRUE, reason |-> "Market regime shifted bearish"]
       ELSE IF position.type = "sell" /\ regime.regime = "trending_bullish"
               /\ regime.regime_confidence > 70
       THEN [close |-> TRUE, reason |-> "Market regime shifted bullish"]
       ELSE IF total_weight > 0 /\ opposing_count * 10 > 6 * total_weight
       THEN [close |-> TRUE, reason |-> "Majority of strategies now opposing position"]
       ELSE [close |-> FALSE, reason |-> ""]

\* should_close_position; confidences in 1/100
ShouldClosePosition(position, signals, regime, weights) ==
    LET total_weight == WeightSum(weights, ForSymbol(position.symbol, signals))
        opposing_count == WeightSum(weights, Opposing(position, signals))
    IN IF total_weight > 0 /\ opposing_count * 10 > 6 * total_weight
       THEN [close |-> TRUE, reason |-> "Majority of strategies now opposing position"]
       ELSE IF position.type = "buy" /\ regime.regime = "trending_bearish"
               /\ regime.regime_confidence > 70
       THEN [close |-> TRUE, reason |-> "Market regime shifted bearish"]
       ELSE IF position.type = "sell" /\ regime.regime = "trending_bullish"
               /\ regime.regime_confidence > 70
       THEN [close |-> TRUE, reason |-> "Market regime shifted bullish"]
       ELSE [close |-> FALSE, reason |-> ""]

----------------------------------------------------------------------------
(* TradingBot *)

SYMBOLS == <<"XAUUSD", "USTECm">>

\* what the strategies and the analyzer report for a symbol in one cycle:
\* the signals (confidence in 1/100) and the market state
AllSignal(signal, confidence) ==
    [s \in Strategies |-> [signal |-> signal, confidence |-> confidence]]

Views == {[signals |-> AllSignal("hold", 50), market_state |-> MS_Range],
          [signals |-> AllSignal("sell", 80), market_state |-> MS_Bear],
          [signals |-> AllSignal("buy", 80), market_state |-> MS_Bull]}

StreakViews == {[signals |-> AllSignal("hold", 50), market_state |-> MS_Range],
                [signals |-> AllSignal("hold", 50), market_state |-> MS_Bear],
                [signals |-> AllSignal("sell", 80), market_state |-> MS_Bear]}

\* strategy.analyze(primary_df, symbol) for every strategy: the signals
\* carry the symbol they were computed for
SignalsFor(symbol, signals) ==
    [s \in DOMAIN signals |-> [symbol |-> symbol, signal |-> signals[s].signal,
                               confidence |-> signals[s].confidence]]

\* {s.strategy: s.signal.value for s in signals}
SignalSnapshot(signals) == [s \in DOMAIN signals |-> signals[s].signal]

\* the decisions that reach _execute_decision and pass its confidence test
\* the simulated broker closes every position it holds; a live one may refuse
SimAnswers == {TRUE}
BrokerAnswers == {TRUE, FALSE}

Actions == {"hold", "buy", "sell", "close_all"}
StreakActions == {"hold", "buy"}

\* no pure function is being called
NoCall == [fn |-> "none"]
NoReturn == [returned |-> FALSE]
Returned(value) == [returned |-> TRUE, value |-> value]

InitEngine ==
    /\ today = 0
    /\ last_reset = 0
    /\ daily_trades = 0
    /\ daily_pnl = 0
    /\ consecutive_losses = 0
    /\ can_trade_result = NoVerdict
    /\ trades = EmptyDict
    /\ next_id = 1
    /\ daily_summary = EmptyDict
    /\ account_history = 0
    /\ positions = <<>>
    /\ order_counter = FIRST_TICKET
    /\ balance = INITIAL_DEPOSIT
    /\ pc = "idle"
    /\ cycle_positions = <<>>
    /\ idx = 0
    /\ calls = <<>>

\* the loop of _trading_cycle over config.SYMBOLS moves on, or the cycle ends
NextSymbol ==
    IF idx < Len(SYMBOLS)
    THEN /\ pc' = "analyze"
         /\ idx' = idx + 1
         /\ UNCHANGED cycle_positions
    ELSE /\ pc' = "idle"
         /\ idx' = 0
         /\ cycle_positions' = <<>>

\* _trading_cycle up to _manage_positions: get_account_info and
\* get_positions reprice the positions, log_account_snapshot adds a row
CycleStart(moves, maxCycles) ==
    /\ pc = "idle"
    /\ account_history < maxCycles
    /\ \E profs \in [1..Len(positions) -> moves] :
          positions' = Repriced(positions, profs)
    /\ account_history' = account_history + 1
    /\ calls' = <<>>
    /\ UNCHANGED pureVars
    /\ cycle_positions' = positions'
    /\ pc' = IF Len(positions') > 0 THEN "manage" ELSE "analyze"
    /\ idx' = 1
    /\ can_trade_result' = NoVerdict
    /\ UNCHANGED <<today, last_reset, daily_trades, daily_pnl, consecutive_losses,
                   trades, next_id, daily_summary, order_counter, balance, brainVars>>

\* the ledger and the Learning Store updated whatever the broker answers,
\* the ledger first
LoggedBeforeClose(pos, memory, closed) ==
    <<[op |-> "log_trade_close", ticket |-> pos.ticket, profit |-> pos.profit],
      [op |-> "close_position", ticket |-> pos.ticket, ok |-> closed],
      [op |-> "remember_trade", memory |-> memory]>>

\* the calls of one iteration of _manage_positions whose exit rule fired:
\* the broker close, then, when it succeeded, log_trade_close and
\* remember_trade
CloseCalls(pos, memory, closed) ==
    IF closed
    THEN <<[op |-> "close_position", ticket |-> pos.ticket, ok |-> TRUE],
           [op |-> "log_trade_close", ticket |-> pos.ticket, profit |-> pos.profit],
           [op |-> "remember_trade", memory |-> memory]>>
    ELSE <<[op |-> "close_position", ticket |-> pos.ticket, ok |-> FALSE]>>

\* one iteration of _manage_positions; answers are the results the broker
\* may give to a close request for a position it holds
ManagePosition(views, answers) ==
    /\ pc = "manage"
    /\ LET pos == cycle_positions[idx]
       IN \E view \in views, answer \in answers :
            LET verdict == ShouldClosePosition(pos, SignalsFor(pos.symbol, view.signals),
                                               view.market_state, strategy_weights)
                closed == answer /\ HasTicket(positions, pos.ticket)
                memory == TradeMemory(pos.symbol, pos.type, pos.profit,
                                      view.market_state, SignalSnapshot(view.signals),
                                      verdict.reason)
            IN IF verdict.close
               THEN /\ calls' = CloseCalls(pos, memory, closed)
                    /\ IF closed
                       THEN /\ ClosePositionOp(pos.ticket)
                            /\ LogTradeCloseOp(pos.ticket, pos.profit)
                            /\ RememberTradeOp(memory)
                       ELSE UNCHANGED <<brokerVars, trades, daily_pnl,
                                        consecutive_losses, brainVars>>
               ELSE /\ calls' = <<>>
                    /\ UNCHANGED <<brokerVars, trades, daily_pnl, consecutive_losses,
                                   brainVars>>
    /\ IF idx < Len(cycle_positions)
       THEN /\ idx' = idx + 1
            /\ pc' = "manage"
       ELSE /\ idx' = 1
            /\ pc' = "analyze"
    /\ can_trade_result' = NoVerdict
    /\ UNCHANGED <<today, last_reset, daily_trades, next_id, daily_summary,
                   account_history, cycle_positions, pureVars>>

SymbolPositions(ps, symbol) == {i \in 1..Len(ps) : ps[i].symbol = symbol}

\* the test of can_trade's verdict in _analyze_and_trade
GateIgnored(verdict) == TRUE
GatePasses(verdict) == verdict.ok

\* _execute_decision for the decision reached by _analyze_and_trade, called
\* with dailyTrades trades counted today
ExecuteDecisionOp(symbol, dailyTrades, actions, moves, maxOpens) ==
    \E action \in actions :
         \/ /\ action = "hold"
            /\ daily_trades' = dailyTrades
            /\ UNCHANGED <<brokerVars, trades, next_id>>
         \/ /\ action = "close_all"
            /\ \E profs \in [1..Len(positions) -> moves] :
                  CloseAllPositionsOp(symbol, profs)
            /\ daily_trades' = dailyTrades
            /\ UNCHANGED <<trades, next_id>>
         \/ /\ action \in {"buy", "sell"}
            /\ next_id <= maxOpens
            /\ ExecuteOrderOp(symbol, action)
            /\ LogTradeOpenOp(order_counter, symbol, action, dailyTrades)

\* _analyze_and_trade for one symbol of config.SYMBOLS: the position caps
\* on the list fetched at the start of the cycle, can_trade, the decision
AnalyzeAndTrade(actions, moves, maxOpens) ==
    /\ pc = "analyze"
    /\ IF \/ Cardinality(SymbolPositions(cycle_positions, SYMBOLS[idx])) >= 2
          \/ Len(cycle_positions) >= MAX_OPEN_POSITIONS
       THEN /\ can_trade_result' = NoVerdict
            /\ UNCHANGED <<last_reset, daily_trades, daily_pnl, daily_summary,
                           trades, next_id, brokerVars>>
       ELSE LET rolled == RolledCounter(daily_trades, last_reset, today)
            IN /\ daily_summary' = RolledSummary(daily_summary, trades, last_reset, today)
               /\ daily_pnl' = RolledCounter(daily_pnl, last_reset, today)
               /\ last_reset' = today
               /\ can_trade_result' = CanTradeVerdict(rolled, consecutive_losses)
               /\ IF GatePasses(can_trade_result')
                  THEN ExecuteDecisionOp(SYMBOLS[idx], rolled, actions, moves, maxOpens)
                  ELSE /\ daily_trades' = rolled
                       /\ UNCHANGED <<trades, next_id, brokerVars>>
    /\ NextSymbol
    /\ calls' = <<>>
    /\ UNCHANGED <<today, consecutive_losses, account_history, brainVars, pureVars>>

\* midnight passes
Tick(maxDay) ==
    /\ today < maxDay
    /\ today' = today + 1
    /\ can_trade_result' = NoVerdict
    /\ UNCHANGED <<last_reset, daily_trades, daily_pnl, consecutive_losses, trades,
                   next_id, daily_summary, account_history, brokerVars, botVars,
                   brainVars, pureVars>>

\* the process is stopped and started again on the same databases: the
\* module-level RiskManager(), MT5Connector() and NeuralTradingBrain()
Restart ==
    /\ daily_trades' = 0
    /\ daily_pnl' = 0
    /\ last_reset' = today
    /\ consecutive_losses' = 0
    /\ can_trade_result' = NoVerdict
    /\ positions' = <<>>
    /\ order_counter' = FIRST_TICKET
    /\ balance' = INITIAL_DEPOSIT
    /\ BrainInitOp
    /\ pc' = "idle"
    /\ idx' = 0
    /\ cycle_positions' = <<>>
    /\ calls' = <<>>
    /\ UNCHANGED <<today, trades, next_id, daily_summary, account_history, pureVars>>

Init ==
    /\ InitEngine
    /\ call = NoCall
    /\ ret = NoReturn
    /\ LEARNING_RATE = 10
    /\ strategy_weights = EmptyDict
    /\ symbol_biases = EmptyDict
    /\ pattern_cache = EmptyDict
    /\ brain_state = EmptyDict
    /\ market_patterns = EmptyDict
    /\ trade_memories = [k \in PatternKeys |-> 0]

Next ==
    \/ CycleStart(PriceMoves, MaxCycles)
    \/ ManagePosition(Views, SimAnswers)
    \/ AnalyzeAndTrade(Actions, PriceMoves, MaxOpens)
    \/ Tick(MaxDay)
    \/ Restart

Spec == Init /\ [][Next]_vars

----------------------------------------------------------------------------
(* The same bot on a falling market: every position loses, the decisions  *)
(* are hold or buy.  Longer behaviours, up to the consecutive-loss limit.  *)

\* the orders that make a streak of max_consecutive_losses losing trades,
\* and the midnights needed to place them under the daily cap
MaxStreakOpens == 5
MaxStreakDay == MaxStreakOpens \div MAX_DAILY_TRADES

NextStreak ==
    \/ CycleStart(LosingMoves, MaxStreakCycles)
    \/ ManagePosition(StreakViews, BrokerAnswers)
    \/ AnalyzeAndTrade(StreakActions, LosingMoves, MaxStreakOpens)
    \/ Tick(MaxStreakDay)

SpecStreak == Init /\ [][NextStreak]_vars

----------------------------------------------------------------------------
(* The RiskManager alone: any sequence of calls of its public methods,     *)
(* midnights and restarts on the same trades.db.                           *)

can_trade ==
    /\ CanTradeOp
    /\ UNCHANGED <<today, consecutive_losses, trades, next_id, account_history,
                   brokerVars, botVars, brainVars, pureVars>>

LogTradeOpen(ticket) ==
    /\ next_id <= MaxRiskOpens
    /\ LogTradeOpenOp(ticket, "XAUUSD", "buy", daily_trades)
    /\ can_trade_result' = NoVerdict
    /\ UNCHANGED <<today, last_reset, daily_pnl, consecutive_losses, daily_summary,
                   account_history, brokerVars, botVars, brainVars, pureVars>>

log_trade_open == \E ticket \in RiskTickets : LogTradeOpen(ticket)

LogTradeClose(ticket, profit) ==
    /\ daily_pnl + profit \in (-100 * MaxDailyPnl)..(100 * MaxDailyPnl)
    /\ LossesAfterClose(consecutive_losses, profit) <= MaxLosses
    /\ LogTradeCloseOp(ticket, profit)
    /\ can_trade_result' = NoVerdict
    /\ UNCHANGED <<today, last_reset, daily_trades, next_id, daily_summary,
                   account_history, brokerVars, botVars, brainVars, pureVars>>

log_trade_close == \E ticket \in RiskTickets, profit \in Profits : LogTradeClose(ticket, profit)

NextRisk ==
    \/ can_trade
    \/ log_trade_open
    \/ log_trade_close
    \/ Tick(MaxRiskDay)
    \/ Restart

SpecRisk == Init /\ [][NextRisk]_vars

\* the RiskManager over a bounded sequence of log_trade_close calls, each
\* appended to calls, with the daily reset of can_trade in between
MaxCloses == 6

JournaledClose ==
    /\ Len(calls) < MaxCloses
    /\ \E ticket \in RiskTickets, profit \in Profits :
          /\ LogTradeCloseOp(ticket, profit)
          /\ calls' = Append(calls, [op |-> "log_trade_close", ticket |-> ticket,
                                     profit |-> profit])
    /\ can_trade_result' = NoVerdict
    /\ UNCHANGED <<today, last_reset, daily_trades, next_id, daily_summary,
                   account_history, brokerVars, pc, cycle_positions, idx,
                   brainVars, pureVars>>

NextLosses ==
    \/ JournaledClose
    \/ can_trade
    \/ Tick(MaxRiskDay)

SpecLosses == Init /\ [][NextLosses]_vars

----------------------------------------------------------------------------
(* Specifications of the Learning Store alone: sequences of remember_trade  *)
(* and process restarts on the same brain.db.  Each one varies the inputs  *)
(* that drive one part of the learned state.                               *)

InitBrain ==
    /\ InitEngine
    /\ call = NoCall
    /\ ret = NoReturn
    /\ LEARNING_RATE \in LearningRates
    /\ strategy_weights = EmptyDict
    /\ symbol_biases = EmptyDict
    /\ pattern_cache = EmptyDict
    /\ brain_state = EmptyDict
    /\ market_patterns = EmptyDict
    /\ trade_memories = [k \in PatternKeys |-> 0]

RestartBrain == BrainInitOp /\ UNCHANGED engineVars

\* any signal snapshot, direction and outcome
RememberTradeSignals ==
    /\ TradesLearned < MaxTrades
    /\ \E direction \in Directions, profit \in {-100, 100}, sigs \in SignalSnapshots :
          RememberTradeOp(TradeMemory("XAUUSD", direction, profit, MS_Bull, sigs, ""))
    /\ UNCHANGED engineVars

SpecWeights == InitBrain /\ [][RememberTradeSignals \/ RestartBrain]_vars

\* remember_trade calls alone, the last one kept in calls
MaxLearnTrades == 3

JournaledRememberTrade ==
    /\ TradesLearned < MaxLearnTrades
    /\ \E direction \in Directions, profit \in {-100, 100}, sigs \in SignalSnapshots :
          LET memory == TradeMemory("XAUUSD", direction, profit, MS_Bull, sigs, "")
          IN /\ RememberTradeOp(memory)
             /\ calls' = <<[op |-> "remember_trade", memory |-> memory]>>
    /\ UNCHANGED <<today, riskVars, brokerVars, pc, cycle_positions, idx, pureVars>>

SpecLearn == InitBrain /\ [][JournaledRememberTrade]_vars

\* any symbol and profit
RememberTradeSymbols ==
    /\ TradesLearned < MaxBiasTrades
    /\ \E symbol \in Symbols, profit \in Profits :
          RememberTradeOp(TradeMemory(symbol, "buy", profit, MS_Range, EmptyDict, ""))
    /\ UNCHANGED engineVars

SpecBias == InitBrain /\ [][RememberTradeSymbols \/ RestartBrain]_vars

\* any outcome under one market state
RememberTradePattern ==
    /\ TradesLearned < MaxPatternTrades
    /\ \E profit \in {-100, 200} :
          RememberTradeOp(TradeMemory("XAUUSD", "buy", profit, MS_Bull, EmptyDict, ""))
    /\ UNCHANGED engineVars

SpecPatterns == InitBrain /\ [][RememberTradePattern \/ RestartBrain]_vars

----------------------------------------------------------------------------
(* should_close_position alone: one call on any position, signals, regime  *)
(* and learned weights.                                                    *)

ExitPositions ==
    {[ticket |-> FIRST_TICKET, symbol |-> "XAUUSD", type |-> d, profit |-> 0] :
        d \in Directions}

\* one signal per strategy, for the position's symbol or the other one;
\* confidences below, at and above 0.6
ExitSignals ==
    [Strategies -> [symbol : Symbols, signal : SignalValues, confidence : {50, 60, 80}]]

\* regime confidences at and above 0.7
ExitRegimes ==
    [regime : {"trending_bearish", "trending_bullish", "ranging"},
     regime_confidence : {70, 80}]

\* learned weights: none (the default 1.0), the clamps, and 1.5
ExitWeights == UNION {[S -> {W_MIN, 1500, W_MAX}] : S \in SUBSET Strategies}

InitExit ==
    /\ InitEngine
    /\ LEARNING_RATE = 10
    /\ strategy_weights \in ExitWeights
    /\ symbol_biases = EmptyDict
    /\ pattern_cache = EmptyDict
    /\ brain_state = EmptyDict
    /\ market_patterns = EmptyDict
    /\ trade_memories = [k \in PatternKeys |-> 0]
    /\ call \in [fn : {"should_close_position"}, position : ExitPositions,
                 signals : ExitSignals, regime : ExitRegimes]
    /\ ret = NoReturn

should_close_position ==
    /\ call.fn = "should_close_position"
    /\ ~ret.returned
    /\ ret' = Returned(ShouldClosePosition(call.position, call.signals, call.regime,
                                           strategy_weights))
    /\ UNCHANGED <<call, brainVars, today, riskVars, brokerVars, botVars>>

SpecExit == InitExit /\ [][should_close_position]_vars

----------------------------------------------------------------------------
(* TradingBot._trail_stop and MT5Connector.modify_position: the cycles in  *)
(* which the exit rules leave a position open.  Prices are in points.      *)

MaxTrailCycles == 3

Abs(a) == IF a < 0 THEN 0 - a ELSE a

\* the position as get_positions reports it after _update_simulation
\* (volume 0.01, so the profit is the price difference)
PricedAt(pos, price) ==
    [pos EXCEPT !.current_price = price,
                !.profit = IF pos.type = "buy" THEN price - pos.open_price
                           ELSE pos.open_price - price]

\* the stops a position may carry when it is opened (sl_price of the
\* decision is free): none, and below and above the entry price
TrailStops == {0, 980, 995, 1005, 1020}
TrailPrices == {990, 997, 1003, 1010}

TrailPositions ==
    {[ticket |-> FIRST_TICKET, symbol |-> "XAUUSD", type |-> d, profit |-> 0,
      open_price |-> 1000, current_price |-> 1000, sl |-> sl] :
        d \in Directions, sl \in TrailStops}

\* key_levels as analyze_timeframe builds it
KeyLevels(pivot) ==
    [resistance |-> 1020, support |-> 980, pivot |-> pivot,
     bb_upper |-> 1015, bb_lower |-> 985, sma_200 |-> 1000]

\* mtf_analysis.get(PRIMARY_TIMEFRAME): analyze_all_timeframes leaves out a
\* timeframe with fewer than 50 rows
PrimaryAnalyses ==
    {[present |-> FALSE]} \cup {[present |-> TRUE, key_levels |-> KeyLevels(p)] : p \in {995, 1008}}

NoRequest == [modify |-> FALSE]
ModifyRequest(sl) == [modify |-> TRUE, sl |-> sl]

\* a trailing rule that moves the stop to the entry price whenever the
\* position is in profit
TrailStopToEntry(pos, primary) ==
    IF ~primary.present THEN NoRequest
    ELSE IF pos.type = "buy"
         THEN IF pos.current_price > pos.open_price
              THEN ModifyRequest(pos.open_price) ELSE NoRequest
         ELSE IF pos.current_price < pos.open_price
              THEN ModifyRequest(pos.open_price) ELSE NoRequest

\* _trail_stop: the modify_position request it makes, if any
TrailStop(pos, primary) ==
    IF ~primary.present THEN NoRequest
    ELSE LET profit_pips == Abs(pos.current_price - pos.open_price)
             atr_level == Get(primary.key_levels, "bb_middle", pos.open_price)
             far == 1000 * profit_pips > 5 * pos.open_price
         IN IF pos.type = "buy"
            THEN IF pos.current_price > pos.open_price
                 THEN LET breakeven == Max(pos.sl, pos.open_price)
                          new_sl == IF far THEN Max(breakeven, atr_level) ELSE breakeven
                      IN IF new_sl > pos.sl THEN ModifyRequest(new_sl) ELSE NoRequest
                 ELSE NoRequest
            ELSE IF pos.current_price < pos.open_price
                 THEN LET breakeven == IF pos.sl > 0 THEN Min(pos.sl, pos.open_price)
                                       ELSE pos.open_price
                          new_sl == IF far THEN Min(breakeven, atr_level) ELSE breakeven
                      IN IF pos.sl = 0 \/ new_sl < pos.sl
                         THEN ModifyRequest(new_sl) ELSE NoRequest
                 ELSE NoRequest

\* modify_position(ticket, sl=...): the stop is stored when the broker
\* accepts the request
Modified(pos, request, accepted) ==
    IF request.modify /\ accepted THEN [pos EXCEPT !.sl = request.sl] ELSE pos

\* the elif branch of _manage_positions for a position the exit rules left
\* open
Trailed(pos, primary, accepted) ==
    IF pos.profit > 0 THEN Modified(pos, TrailStop(pos, primary), accepted) ELSE pos

InitTrail ==
    /\ today = 0
    /\ last_reset = 0
    /\ daily_trades = 0
    /\ daily_pnl = 0
    /\ consecutive_losses = 0
    /\ can_trade_result = NoVerdict
    /\ trades = EmptyDict
    /\ next_id = 1
    /\ daily_summary = EmptyDict
    /\ account_history = 0
    /\ positions \in {<<p>> : p \in TrailPositions}
    /\ order_counter = FIRST_TICKET + 1
    /\ balance = INITIAL_DEPOSIT
    /\ pc = "idle"
    /\ cycle_positions = <<>>
    /\ idx = 0
    /\ calls = <<>>
    /\ call = NoCall
    /\ ret = NoReturn
    /\ LEARNING_RATE = 10
    /\ strategy_weights = EmptyDict
    /\ symbol_biases = EmptyDict
    /\ pattern_cache = EmptyDict
    /\ brain_state = EmptyDict
    /\ market_patterns = EmptyDict
    /\ trade_memories = [k \in PatternKeys |-> 0]

\* one cycle in which the exit rules fire for no position: get_positions
\* reprices them, then _manage_positions trails the stop of each one that
\* is in profit
HoldAndTrail ==
    /\ account_history < MaxTrailCycles
    /\ \E prices \in [1..Len(positions) -> TrailPrices],
          primaries \in [1..Len(positions) -> PrimaryAnalyses],
          answers \in [1..Len(positions) -> BrokerAnswers] :
          positions' = [i \in 1..Len(positions) |->
                           Trailed(PricedAt(positions[i], prices[i]),
                                   primaries[i], answers[i])]
    /\ account_history' = account_history + 1
    /\ UNCHANGED <<brainVars, today, last_reset, daily_trades, daily_pnl,
                   consecutive_losses, can_trade_result, trades, next_id,
                   daily_summary, order_counter, balance, botVars, pureVars>>

SpecTrail == InitTrail /\ [][HoldAndTrail]_vars

----------------------------------------------------------------------------
(* RiskManager.calculate_position_size.  Balance in units, confidence in   *)
(* 1/100, lot sizes in 1/100 lot; the quotient is kept exact as num / den. *)

\* config.MAX_RISK_PER_TRADE, percent
MAX_RISK_PER_TRADE == 5

\* the symbols for which "USTECH" in symbol holds
UstechSymbols == {"USTECH100"}
SizeSymbols == Symbols \cup UstechSymbols

\* pip_value, in units
PipValue(symbol) ==
    IF symbol = "XAUUSD" THEN 1
    ELSE IF symbol \in UstechSymbols THEN 1
    ELSE 10

\* round(x, 2) of num / den hundredths, den > 0 and num >= 0: to the
\* nearest, ties to even
RoundHundredths(num, den) ==
    LET q == num \div den
        r == num % den
    IN IF 2 * r > den THEN q + 1
       ELSE IF 2 * r < den THEN q
       ELSE q + (q % 2)

\* lot_size before max(0.01, min(10.0, .)), in 1/100 lot, as <<num, den>>
LotQuotient(bal, confidence, sl_pips, symbol, losses, pnl) ==
    LET halved == losses >= 3
        reduced == pnl < 0
        pips == IF sl_pips <= 0 THEN 50 ELSE sl_pips
        \* balance * base_risk * confidence [* 0.5] [* 0.75], times 100
        num == bal * MAX_RISK_PER_TRADE * confidence * (IF reduced THEN 3 ELSE 1)
        den == 100 * (IF halved THEN 2 ELSE 1) * (IF reduced THEN 4 ELSE 1)
                   * pips * PipValue(symbol)
    IN <<num, den>>

\* the size without the clamp to [0.01, 10.0]
CalculatePositionSizeUnclamped(bal, confidence, sl_pips, symbol, losses, pnl) ==
    LET lot == LotQuotient(bal, confidence, sl_pips, symbol, losses, pnl)
    IN IF lot[1] < 0 THEN 0 - RoundHundredths(0 - lot[1], lot[2])
       ELSE RoundHundredths(lot[1], lot[2])

\* calculate_position_size(balance, confidence, sl_pips, symbol) with
\* self.consecutive_losses = losses and self.daily_pnl = pnl
CalculatePositionSize(bal, confidence, sl_pips, symbol, losses, pnl) ==
    LET lot == LotQuotient(bal, confidence, sl_pips, symbol, losses, pnl)
    IN IF lot[1] < lot[2] THEN 1
       ELSE IF lot[1] > 1000 * lot[2] THEN 1000
       ELSE RoundHundredths(lot[1], lot[2])

\* balances: overdrawn, empty, the initial deposit, a large account
SizeBalances == {-500, 0, 1000, 50000, 1000000}
SizeConfidences == {0, 39, 40, 41, 60, 80, 100}
SizePips == {0, 3, 10, 50}

SizeCalls ==
    [fn : {"calculate_position_size"}, balance : SizeBalances,
     confidence : SizeConfidences, sl_pips : SizePips, symbol : SizeSymbols]

\* a brain that has learned nothing
BrainUntrained ==
    /\ LEARNING_RATE = 10
    /\ strategy_weights = EmptyDict
    /\ symbol_biases = EmptyDict
    /\ pattern_cache = EmptyDict
    /\ brain_state = EmptyDict
    /\ market_patterns = EmptyDict
    /\ trade_memories = [k \in PatternKeys |-> 0]

\* one call, on a RiskManager with any loss streak and any day's result
InitSize ==
    /\ today = 0
    /\ last_reset = 0
    /\ daily_trades = 0
    /\ daily_pnl \in {-100, 0, 100}
    /\ consecutive_losses \in {0, 2, 3}
    /\ can_trade_result = NoVerdict
    /\ trades = EmptyDict
    /\ next_id = 1
    /\ daily_summary = EmptyDict
    /\ account_history = 0
    /\ positions = <<>>
    /\ order_counter = FIRST_TICKET
    /\ balance = INITIAL_DEPOSIT
    /\ pc = "idle"
    /\ cycle_positions = <<>>
    /\ idx = 0
    /\ calls = <<>>
    /\ BrainUntrained
    /\ call \in SizeCalls
    /\ ret = NoReturn

calculate_position_size ==
    /\ call.fn = "calculate_position_size"
    /\ ~ret.returned
    /\ ret' = Returned(CalculatePositionSize(call.balance, call.confidence, call.sl_pips,
                                             call.symbol, consecutive_losses, daily_pnl))
    /\ UNCHANGED <<call, brainVars, today, riskVars, brokerVars, botVars>>

SpecSize == InitSize /\ [][calculate_position_size]_vars

----------------------------------------------------------------------------
(* MultiTimeframeAnalyzer.get_market_regime.  Weights and strengths in     *)
(* 1/100; a score is the quotient num / total_weight, in 1/100.            *)

\* self.timeframe_weights
timeframe_weights ==
    [MN1 |-> 15, W1 |-> 15, D1 |-> 20, H4 |-> 15, H1 |-> 15, M30 |-> 8,
     M15 |-> 7, M5 |-> 3, M1 |-> 2]

TimeframeWeight(tf) == Get(timeframe_weights, tf, 5)

\* "bullish" in trend, "bearish" in trend
ContainsBullish(trend) == trend \in {"bullish", "strong_bullish"}
ContainsBearish(trend) == trend \in {"bearish", "strong_bearish"}

\* a denominator that is the weight of all nine timeframes, present or not
WeightOfAllTimeframes(analyses) ==
    SumOver(timeframe_weights, DOMAIN timeframe_weights)

TotalWeight(analyses) ==
    SumOver([tf \in DOMAIN analyses |-> TimeframeWeight(tf)], DOMAIN analyses)

\* the sum of weight * strength over the bullish timeframes, before the
\* division by total_weight
BullishSum(analyses) ==
    SumOver([tf \in DOMAIN analyses |->
                IF ContainsBullish(analyses[tf].trend)
                THEN TimeframeWeight(tf) * analyses[tf].strength ELSE 0],
            DOMAIN analyses)

\* the bearish sum: the elif branch, taken when the trend is not bullish
BearishSum(analyses) ==
    SumOver([tf \in DOMAIN analyses |->
                IF ~ContainsBullish(analyses[tf].trend)
                      /\ ContainsBearish(analyses[tf].trend)
                THEN TimeframeWeight(tf) * analyses[tf].strength ELSE 0],
            DOMAIN analyses)

VolatilityCount(analyses, level) ==
    Cardinality({tf \in DOMAIN analyses : analyses[tf].volatility = level})

\* bullish_score > bearish_score * 1.5 and bullish_score > 0.3, both scores
\* being sums divided by total > 0
Trending(sum, other, total) == 2 * sum > 3 * other /\ sum > 30 * total

\* min(1.0, score), to 1/100
TrendConfidence(sum, total) == Min(100, sum \div total)

Regime(regime, confidence) == [regime |-> regime, regime_confidence |-> confidence]

\* a classifier that looks at the volatility before the trend scores
GetMarketRegimeVolatilityFirst(analyses) ==
    IF DOMAIN analyses = {} THEN Regime("unknown", 0)
    ELSE LET total == TotalWeight(analyses)
             bull == BullishSum(analyses)
             bear == BearishSum(analyses)
         IN IF total = 0 THEN Regime("unknown", 0)
            ELSE IF 2 * VolatilityCount(analyses, "high") > Cardinality(DOMAIN analyses)
                 THEN Regime("volatile", 60)
            ELSE IF 2 * VolatilityCount(analyses, "low") > Cardinality(DOMAIN analyses)
                 THEN Regime("consolidating", 60)
            ELSE IF Trending(bull, bear, total)
                 THEN Regime("trending_bullish", TrendConfidence(bull, total))
            ELSE IF Trending(bear, bull, total)
                 THEN Regime("trending_bearish", TrendConfidence(bear, total))
            ELSE Regime("ranging", 50)

\* get_market_regime(analyses)
GetMarketRegime(analyses) ==
    IF DOMAIN analyses = {} THEN Regime("unknown", 0)
    ELSE LET total == TotalWeight(analyses)
             bull == BullishSum(analyses)
             bear == BearishSum(analyses)
         IN IF total = 0 THEN Regime("unknown", 0)
            ELSE IF Trending(bull, bear, total)
                 THEN Regime("trending_bullish", TrendConfidence(bull, total))
            ELSE IF Trending(bear, bull, total)
                 THEN Regime("trending_bearish", TrendConfidence(bear, total))
            ELSE IF 2 * VolatilityCount(analyses, "high") > Cardinality(DOMAIN analyses)
                 THEN Regime("volatile", 60)
            ELSE IF 2 * VolatilityCount(analyses, "low") > Cardinality(DOMAIN analyses)
                 THEN Regime("consolidating", 60)
            ELSE Regime("ranging", 50)

\* the analyses of any of three timeframes; strengths at the 0.3 threshold,
\* above it and at 1.0
RegimeTimeframes == {"D1", "H1", "M15"}
Trends == {"strong_bullish", "bullish", "neutral", "bearish", "strong_bearish"}
TimeframeAnalyses ==
    [trend : Trends, strength : {30, 60, 100}, volatility : {"high", "normal", "low"}]
RegimeInputs == UNION {[T -> TimeframeAnalyses] : T \in SUBSET RegimeTimeframes}

InitRegime ==
    /\ InitEngine
    /\ BrainUntrained
    /\ call \in [fn : {"get_market_regime"}, analyses : RegimeInputs]
    /\ ret = NoReturn

get_market_regime ==
    /\ call.fn = "get_market_regime"
    /\ ~ret.returned
    /\ ret' = Returned(GetMarketRegime(call.analyses))
    /\ UNCHANGED <<call, brainVars, today, riskVars, brokerVars, botVars>>

SpecRegime == InitRegime /\ [][get_market_regime]_vars

----------------------------------------------------------------------------
(* NeuralTradingBrain.generate_market_insight: one call on a brain that    *)
(* has learned from a history of trades.  Confidences in 1/1000.           *)

Insight(insight_type, confidence) ==
    [insight_type |-> insight_type, confidence |-> confidence]

\* an advisor that looks at the symbol bias before the pattern cache
GenerateMarketInsightBiasFirst(cache, biases, market_state, symbol) ==
    LET pattern_key == GeneratePatternKey(market_state)
        bias == Get(biases, symbol, DefaultBias)
    IN IF bias.trades >= 10
       THEN Insight("symbol_analysis", Min(800, 500 + (bias.trades * 1000) \div 100))
       ELSE IF pattern_key \in DOMAIN cache /\ cache[pattern_key].occurrences >= 3
       THEN Insight("pattern_match",
                    Min(900, (cache[pattern_key].wins * 1000)
                                 \div cache[pattern_key].occurrences))
       ELSE Insight("learning", 300)

\* generate_market_insight(market_state, symbol) on self.pattern_cache and
\* self.symbol_biases
GenerateMarketInsight(cache, biases, market_state, symbol) ==
    LET pattern_key == GeneratePatternKey(market_state)
        bias == Get(biases, symbol, DefaultBias)
    IN IF pattern_key \in DOMAIN cache /\ cache[pattern_key].occurrences >= 3
       THEN Insight("pattern_match",
                    Min(900, (cache[pattern_key].wins * 1000)
                                 \div cache[pattern_key].occurrences))
       ELSE IF bias.trades >= 10
       THEN Insight("symbol_analysis", Min(800, 500 + (bias.trades * 1000) \div 100))
       ELSE Insight("learning", 300)

\* the brain before any trade, as a record
FreshBrain ==
    [strategy_weights |-> EmptyDict, symbol_biases |-> EmptyDict,
     pattern_cache |-> EmptyDict, brain_state |-> EmptyDict,
     market_patterns |-> EmptyDict, trade_memories |-> [k \in PatternKeys |-> 0]]

\* the brain after remember_trade(memory)
Learned(brain, memory) ==
    LET key == GeneratePatternKey(memory.market_state)
        weights == UpdatedWeights(brain.strategy_weights, memory, 10)
        biases == UpdatedBiases(brain.symbol_biases, memory)
        cache == UpdatedCache(brain.pattern_cache, memory)
    IN [brain EXCEPT !.strategy_weights = weights,
                     !.symbol_biases = biases,
                     !.pattern_cache = cache,
                     !.brain_state = SavedState(weights, biases),
                     !.market_patterns = SavedPatterns(@, cache, memory),
                     !.trade_memories = [@ EXCEPT ![key] = @ + 1]]

RECURSIVE LearnedAll(_, _)
\* the brain after remember_trade of every memory of history, in order
LearnedAll(brain, history) ==
    IF history = <<>> THEN brain
    ELSE LearnedAll(Learned(brain, Head(history)), Tail(history))

\* the brain after a restart: pattern_cache is not read back
Reloaded(brain) ==
    [brain EXCEPT !.pattern_cache = EmptyDict,
                  !.strategy_weights = JsonLoads(JsonDumps(brain.strategy_weights)),
                  !.symbol_biases = JsonLoads(JsonDumps(brain.symbol_biases))]

\* histories: for each market state and symbol a run of trades, all won or
\* all lost; run lengths around the thresholds 3 and 10, two
\* runs of 15 reaching the cap of the bias confidence at 30 trades
InsightStates == {MS_Bull, MS_Range}
RunLengths == {0, 2, 3, 10, 15}
Runs == [InsightStates \X Symbols -> RunLengths]

Run(market_state, symbol, profit, n) ==
    [i \in 1..n |-> TradeMemory(symbol, "buy", profit, market_state, EmptyDict, "")]

History(runs, profits) ==
    Run(MS_Bull, "XAUUSD", profits[MS_Bull], runs[<<MS_Bull, "XAUUSD">>])
    \o Run(MS_Bull, "USTECm", profits[MS_Bull], runs[<<MS_Bull, "USTECm">>])
    \o Run(MS_Range, "XAUUSD", profits[MS_Range], runs[<<MS_Range, "XAUUSD">>])
    \o Run(MS_Range, "USTECm", profits[MS_Range], runs[<<MS_Range, "USTECm">>])

InitInsight ==
    /\ InitEngine
    /\ LEARNING_RATE = 10
    /\ \E runs \in Runs, profits \in [InsightStates -> {-100, 200}],
          restarted \in BOOLEAN :
          LET learned == LearnedAll(FreshBrain, History(runs, profits))
              brain == IF restarted THEN Reloaded(learned) ELSE learned
          IN /\ strategy_weights = brain.strategy_weights
             /\ symbol_biases = brain.symbol_biases
             /\ pattern_cache = brain.pattern_cache
             /\ brain_state = brain.brain_state
             /\ market_patterns = brain.market_patterns
             /\ trade_memories = brain.trade_memories
    /\ call \in [fn : {"generate_market_insight"}, market_state : InsightStates,
                 symbol : Symbols]
    /\ ret = NoReturn

generate_market_insight ==
    /\ call.fn = "generate_market_insight"
    /\ ~ret.returned
    /\ ret' = Returned(GenerateMarketInsight(pattern_cache, symbol_biases,
                                             call.market_state, call.symbol))
    /\ UNCHANGED <<call, brainVars, today, riskVars, brokerVars, botVars>>

SpecInsight == InitInsight /\ [][generate_market_insight]_vars

----------------------------------------------------------------------------
(* AdvancedAIBrain.analyze_market, TradingBot._fallback_strategy_decision  *)
(* and _execute_decision: _analyze_and_trade for one symbol, with the      *)
(* Advisor's reply as an input.  Confidences in 1/100.                     *)

\* four of the strategies of ALL_STRATEGIES, the quorum of the fallback
VotingStrategies == Strategies \cup {"MACD Momentum", "Bollinger Bands"}

\* str.lower() on the action strings at hand
Lower(action) == IF action = "BUY" THEN "buy" ELSE action

\* chat.completions.create raised (an error or a timeout)
AdvisorFailure == [ok |-> FALSE]

\* the JSON object of a reply: the actions the prompt lists, one in upper
\* case and one it does not list; confidences around 0.4 and out of range
AdvisorReplies ==
    {AdvisorFailure} \cup
    [ok : {TRUE},
     action : {"buy", "BUY", "sell", "hold", "close_all", "partial_close", "scale_in"},
     confidence : {0, 39, 40, 80, 150}]

\* _validate_decision
ValidateDecision(reply, symbol) ==
    LET action == Lower(reply.action)
        confidence == Min(100, Max(0, reply.confidence))
    IN [action |-> IF action \in {"buy", "sell"} /\ confidence < 40
                   THEN "hold" ELSE action,
        symbol |-> symbol,
        confidence |-> confidence]

\* an except branch that reports a neutral confidence
AnalyzeMarketNeutralOnError(reply, symbol) ==
    IF reply.ok THEN ValidateDecision(reply, symbol)
    ELSE [action |-> "hold", symbol |-> symbol, confidence |-> 50]

\* analyze_market: the validated reply, or the decision of the except branch
AnalyzeMarket(reply, symbol) ==
    IF reply.ok THEN ValidateDecision(reply, symbol)
    ELSE [action |-> "hold", symbol |-> symbol, confidence |-> 0]

\* the strategies voting for side: sig.confidence > 0.5
Votes(signals, side) ==
    {s \in DOMAIN signals : signals[s].signal = side /\ signals[s].confidence > 50}

\* the sum of sig.confidence * weight over the votes, in 1/100000
VoteConfidence(signals, weights, side) ==
    SumOver([s \in Votes(signals, side) |->
                signals[s].confidence * StrategyWeight(weights, s)],
            Votes(signals, side))

\* _fallback_strategy_decision
FallbackStrategyDecision(signals, weights, symbol) ==
    LET buy_votes == Cardinality(Votes(signals, "buy"))
        sell_votes == Cardinality(Votes(signals, "sell"))
        buy_confidence == VoteConfidence(signals, weights, "buy")
        sell_confidence == VoteConfidence(signals, weights, "sell")
    IN IF buy_votes >= 4 /\ buy_confidence > sell_confidence
       THEN [action |-> "buy", symbol |-> symbol,
             confidence |-> Min(80, buy_confidence \div (1000 * Max(buy_votes, 1)))]
       ELSE IF sell_votes >= 4 /\ sell_confidence > buy_confidence
       THEN [action |-> "sell", symbol |-> symbol,
             confidence |-> Min(80, sell_confidence \div (1000 * Max(sell_votes, 1)))]
       ELSE [action |-> "hold", confidence |-> 0]

\* the test that sends _analyze_and_trade to the fallback
NeedsFallback(decision) == decision.action = "hold" \/ decision.confidence < 40

\* the order _execute_decision places for an action it does not return on
OrderType(action) == IF action = "buy" THEN "buy" ELSE "sell"

\* _execute_decision(decision, ...), called with dailyTrades trades counted
\* today
ExecuteAdvisedDecisionOp(decision, dailyTrades, moves) ==
    IF decision.action = "hold"
    THEN /\ daily_trades' = dailyTrades
         /\ UNCHANGED <<brokerVars, trades, next_id>>
    ELSE IF decision.action = "close_all"
    THEN /\ \E profs \in [1..Len(positions) -> moves] :
               CloseAllPositionsOp(decision.symbol, profs)
         /\ daily_trades' = dailyTrades
         /\ UNCHANGED <<trades, next_id>>
    ELSE IF "symbol" \notin DOMAIN decision \/ decision.confidence < 40
    THEN /\ daily_trades' = dailyTrades
         /\ UNCHANGED <<brokerVars, trades, next_id>>
    ELSE /\ ExecuteOrderOp(decision.symbol, OrderType(decision.action))
         /\ LogTradeOpenOp(order_counter, decision.symbol, decision.action, dailyTrades)

\* the signals of the four strategies: unanimous, short of the quorum, and
\* too weak to vote
VotingSignals ==
    {[s \in VotingStrategies |-> [signal |-> signal, confidence |-> confidence]] :
        signal \in SignalValues, confidence \in {50, 80}}
    \cup {[s \in VotingStrategies |->
             [signal |-> IF s = "RSI Reversal" THEN "sell" ELSE "buy", confidence |-> 80]]}

\* the positions at the start of the cycle: none, or one on the symbol
\* with its ledger row
OpenedBefore ==
    {<<>>, <<[ticket |-> FIRST_TICKET, symbol |-> "XAUUSD", type |-> "buy", profit |-> 0]>>}

InitDecide ==
    /\ today = 0
    /\ last_reset = 0
    /\ daily_pnl = 0
    /\ consecutive_losses = 0
    /\ can_trade_result = NoVerdict
    /\ daily_summary = EmptyDict
    /\ account_history = 1
    /\ positions \in OpenedBefore
    /\ daily_trades = Len(positions)
    /\ trades = [t \in {positions[i].ticket : i \in 1..Len(positions)} |->
                    OpenRow(1, "XAUUSD", "buy", 0)]
    /\ next_id = 1 + Len(positions)
    /\ order_counter = FIRST_TICKET + Len(positions)
    /\ balance = INITIAL_DEPOSIT
    /\ pc = "analyze"
    /\ cycle_positions = positions
    /\ idx = 1
    /\ calls = <<>>
    /\ BrainUntrained
    /\ call \in [fn : {"_analyze_and_trade"}, advisor : AdvisorReplies,
                 signals : VotingSignals]
    /\ ret = NoReturn

\* _analyze_and_trade for SYMBOLS[idx]: the position caps, can_trade, the
\* Advisor's decision, the fallback, _execute_decision
AnalyzeAndTradeAdvised ==
    /\ pc = "analyze"
    /\ call.fn = "_analyze_and_trade"
    /\ ~ret.returned
    /\ IF \/ Cardinality(SymbolPositions(cycle_positions, SYMBOLS[idx])) >= 2
          \/ Len(cycle_positions) >= MAX_OPEN_POSITIONS
       THEN /\ can_trade_result' = NoVerdict
            /\ ret' = Returned([gated |-> TRUE])
            /\ UNCHANGED <<last_reset, daily_trades, daily_pnl, daily_summary,
                           trades, next_id, brokerVars>>
       ELSE LET rolled == RolledCounter(daily_trades, last_reset, today)
                advised == AnalyzeMarket(call.advisor, SYMBOLS[idx])
                decision == IF NeedsFallback(advised)
                            THEN FallbackStrategyDecision(call.signals, strategy_weights,
                                                          SYMBOLS[idx])
                            ELSE advised
            IN /\ daily_summary' = RolledSummary(daily_summary, trades, last_reset, today)
               /\ daily_pnl' = RolledCounter(daily_pnl, last_reset, today)
               /\ last_reset' = today
               /\ can_trade_result' = CanTradeVerdict(rolled, consecutive_losses)
               /\ IF GatePasses(can_trade_result')
                  THEN /\ ret' = Returned([gated |-> FALSE, advised |-> advised,
                                           fallback |-> NeedsFallback(advised),
                                           decision |-> decision])
                       /\ ExecuteAdvisedDecisionOp(decision, rolled, PriceMoves)
                  ELSE /\ ret' = Returned([gated |-> TRUE])
                       /\ daily_trades' = rolled
                       /\ UNCHANGED <<trades, next_id, brokerVars>>
    /\ NextSymbol
    /\ calls' = <<>>
    /\ UNCHANGED <<today, consecutive_losses, account_history, brainVars, call>>

SpecDecide == InitDecide /\ [][AnalyzeAndTradeAdvised]_vars

----------------------------------------------------------------------------
(* The RiskManager on a trades.db that may refuse an operation: can_trade   *)
(* is called with the outcome sqlite3 gives to the statements it issues.    *)

\* what sqlite3 answers: the statements run, or one raises
StorageOutcomes == {"ok", "OperationalError"}

\* the exception that leaves a call
Raised(error) == [returned |-> FALSE, raised |-> error]

\* can_trade: _reset_daily_if_needed calls _save_daily_summary on the first
\* call of a new day, before it zeroes the counters; neither method has a
\* try block, so an exception of sqlite3 leaves can_trade with the counters
\* and last_reset as they were.  calls holds the storage work of the call.
CanTradeOnStorage(storage) ==
    /\ call' = [fn |-> "can_trade", storage |-> storage]
    /\ IF today # last_reset
       THEN /\ calls' = <<[op |-> "_save_daily_summary", date |-> last_reset]>>
            /\ IF storage = "ok"
               THEN /\ CanTradeOp
                    /\ ret' = Returned(can_trade_result')
               ELSE /\ ret' = Raised(storage)
                    /\ can_trade_result' = NoVerdict
                    /\ UNCHANGED <<last_reset, daily_trades, daily_pnl, daily_summary>>
       ELSE /\ calls' = <<>>
            /\ CanTradeOp
            /\ ret' = Returned(can_trade_result')
    /\ UNCHANGED <<today, consecutive_losses, trades, next_id, account_history,
                   brokerVars, pc, cycle_positions, idx, brainVars>>

can_trade_on_storage == \E storage \in StorageOutcomes : CanTradeOnStorage(storage)

NextGate ==
    \/ can_trade_on_storage
    \/ log_trade_open
    \/ log_trade_close
    \/ Tick(MaxRiskDay)

SpecGate == Init /\ [][NextGate]_vars

----------------------------------------------------------------------------
(* The bot on a trades.db that may refuse an operation: log_trade_close is  *)
(* called with the outcome sqlite3 gives to its UPDATE and commit.          *)

\* a try block around log_trade_close that swallows the exception: the
\* iteration goes on to remember_trade whatever the storage answered
RememberTradeAnyway(storage) == TRUE

\* _manage_positions calls log_trade_close outside any try block: the line
\* of neural_brain.remember_trade is reached only when the call returned
ReachesRememberTrade(storage) == storage = "ok"

\* the calls of one iteration of _manage_positions whose exit rule fired
\* and whose broker close succeeded
CloseCallsOnStorage(pos, memory, storage) ==
    <<[op |-> "close_position", ticket |-> pos.ticket, ok |-> TRUE],
      [op |-> "log_trade_close", ticket |-> pos.ticket, profit |-> pos.profit,
       raised |-> storage # "ok"]>>
    \o (IF ReachesRememberTrade(storage)
        THEN <<[op |-> "remember_trade", memory |-> memory]>>
        ELSE <<>>)

\* one iteration of _manage_positions.  When sqlite3 raises inside
\* log_trade_close the UPDATE is not committed and the lines after
\* conn.commit() (daily_pnl, consecutive_losses) do not run; the exception
\* leaves _manage_positions and _trading_cycle and is caught by _run_loop,
\* which starts a new cycle later.  The broker has closed the position.
ManagePositionOnStorage(views, answers) ==
    /\ pc = "manage"
    /\ LET pos == cycle_positions[idx]
       IN \E view \in views, answer \in answers, storage \in StorageOutcomes :
            LET verdict == ShouldClosePosition(pos, SignalsFor(pos.symbol, view.signals),
                                               view.market_state, strategy_weights)
                closed == answer /\ HasTicket(positions, pos.ticket)
                memory == TradeMemory(pos.symbol, pos.type, pos.profit,
                                      view.market_state, SignalSnapshot(view.signals),
                                      verdict.reason)
                aborted == verdict.close /\ closed /\ storage # "ok"
            IN /\ IF verdict.close
                  THEN IF closed
                       THEN /\ calls' = CloseCallsOnStorage(pos, memory, storage)
                            /\ ClosePositionOp(pos.ticket)
                            /\ IF storage = "ok"
                               THEN LogTradeCloseOp(pos.ticket, pos.profit)
                               ELSE UNCHANGED <<trades, daily_pnl, consecutive_losses>>
                            /\ IF ReachesRememberTrade(storage)
                               THEN RememberTradeOp(memory)
                               ELSE UNCHANGED brainVars
                       ELSE /\ calls' = CloseCalls(pos, memory, FALSE)
                            /\ UNCHANGED <<brokerVars, trades, daily_pnl,
                                           consecutive_losses, brainVars>>
                  ELSE /\ calls' = <<>>
                       /\ UNCHANGED <<brokerVars, trades, daily_pnl, consecutive_losses,
                                      brainVars>>
               /\ IF aborted
                  THEN /\ idx' = 0
                       /\ pc' = "idle"
                       /\ cycle_positions' = <<>>
                  ELSE /\ IF idx < Len(cycle_positions)
                          THEN /\ idx' = idx + 1
                               /\ pc' = "manage"
                          ELSE /\ idx' = 1
                               /\ pc' = "analyze"
                       /\ UNCHANGED cycle_positions
    /\ can_trade_result' = NoVerdict
    /\ UNCHANGED <<today, last_reset, daily_trades, next_id, daily_summary,
                   account_history, pureVars>>

NextPersist ==
    \/ CycleStart(PriceMoves, MaxCycles)
    \/ ManagePositionOnStorage(Views, SimAnswers)
    \/ AnalyzeAndTrade(StreakActions, PriceMoves, MaxOpens)

SpecPersist == Init /\ [][NextPersist]_vars

----------------------------------------------------------------------------
(* The Learning Store constructed on a brain.db whose strategy_weights row  *)
(* holds any weights, inside or outside [W_MIN, W_MAX]: reads of a weight, *)
(* remember_trade and restarts.                                            *)

\* the weights found in the row, in 1/1000
StoredWeights == {50, W_MIN, W_DEFAULT, W_MAX, 5000}

StoredDicts == UNION {[S -> StoredWeights] : S \in SUBSET Strategies}

\* __init__ has run _load_learned_state on the stored row
InitStored ==
    /\ InitEngine
    /\ call = NoCall
    /\ ret = NoReturn
    /\ LEARNING_RATE \in LearningRates
    /\ \E stored \in StoredDicts :
          /\ brain_state = SavedState(stored, EmptyDict)
          /\ strategy_weights = JsonLoads(brain_state["strategy_weights"])
    /\ symbol_biases = EmptyDict
    /\ pattern_cache = EmptyDict
    /\ market_patterns = EmptyDict
    /\ trade_memories = [k \in PatternKeys |-> 0]

\* remember_trade on the loaded weights
MaxStoredTrades == 1

RememberTradeOnStored ==
    /\ TradesLearned < MaxStoredTrades
    /\ \E direction \in Directions, profit \in {-100, 100}, sigs \in SignalSnapshots :
          RememberTradeOp(TradeMemory("XAUUSD", direction, profit, MS_Bull, sigs, ""))
    /\ UNCHANGED engineVars

get_strategy_weight ==
    /\ \E strategy_name \in Strategies :
          /\ call' = [fn |-> "get_strategy_weight", strategy_name |-> strategy_name]
          /\ ret' = Returned(StrategyWeight(strategy_weights, strategy_name))
    /\ UNCHANGED <<brainVars, today, riskVars, brokerVars, botVars>>

NextStored ==
    \/ get_strategy_weight
    \/ RememberTradeOnStored
    \/ RestartBrain

SpecStored == InitStored /\ [][NextStored]_vars

----------------------------------------------------------------------------
(* The bot with SIGINT / SIGTERM.  The handler runs in the main thread      *)
(* between two bytecodes of the cycle, so the iteration of                  *)
(* _manage_positions that closes a position is taken call by call: pc is    *)
(* the next call of the iteration, call holds its TradeMemory arguments.    *)

\* the loop of _manage_positions moves to the next position, or the cycle
\* goes on to the symbols
NextPosition ==
    IF idx < Len(cycle_positions)
    THEN /\ idx' = idx + 1
         /\ pc' = "manage"
    ELSE /\ idx' = 1
         /\ pc' = "analyze"

\* should_close_position and mt5.close_position of one iteration
ManageClose(views, answers) ==
    /\ pc = "manage"
    /\ LET pos == cycle_positions[idx]
       IN \E view \in views, answer \in answers :
            LET verdict == ShouldClosePosition(pos, SignalsFor(pos.symbol, view.signals),
                                               view.market_state, strategy_weights)
                closed == answer /\ HasTicket(positions, pos.ticket)
                memory == TradeMemory(pos.symbol, pos.type, pos.profit,
                                      view.market_state, SignalSnapshot(view.signals),
                                      verdict.reason)
            IN IF verdict.close /\ closed
               THEN /\ ClosePositionOp(pos.ticket)
                    /\ calls' = <<[op |-> "close_position", ticket |-> pos.ticket,
                                   ok |-> TRUE]>>
                    /\ call' = [fn |-> "_manage_positions", memory |-> memory]
                    /\ pc' = "log_trade_close"
                    /\ UNCHANGED idx
               ELSE /\ calls' = IF verdict.close THEN CloseCalls(pos, memory, FALSE)
                                ELSE <<>>
                    /\ NextPosition
                    /\ UNCHANGED <<brokerVars, call>>
    /\ can_trade_result' = NoVerdict
    /\ UNCHANGED <<today, last_reset, daily_trades, daily_pnl, consecutive_losses,
                   trades, next_id, daily_summary, account_history, cycle_positions,
                   ret, brainVars>>

\* risk_manager.log_trade_close of the iteration
ManageLog ==
    /\ pc = "log_trade_close"
    /\ LET pos == cycle_positions[idx]
       IN /\ LogTradeCloseOp(pos.ticket, pos.profit)
          /\ calls' = Append(calls, [op |-> "log_trade_close", ticket |-> pos.ticket,
                                     profit |-> pos.profit])
    /\ pc' = "remember_trade"
    /\ UNCHANGED <<today, last_reset, daily_trades, can_trade_result, next_id,
                   daily_summary, account_history, brokerVars, cycle_positions, idx,
                   pureVars, brainVars>>

\* neural_brain.remember_trade of the iteration
ManageLearn ==
    /\ pc = "remember_trade"
    /\ RememberTradeOp(call.memory)
    /\ calls' = Append(calls, [op |-> "remember_trade", memory |-> call.memory])
    /\ call' = NoCall
    /\ NextPosition
    /\ UNCHANGED <<today, riskVars, brokerVars, cycle_positions, ret>>

\* _handle_shutdown: running = False, the session summary, mt5.disconnect
\* and sys.exit(0).  SystemExit is raised where the main thread stands; it
\* is no Exception, so the handler of _run_loop lets it through.
HandleShutdown ==
    /\ pc # "exited"
    /\ pc' = "exited"
    /\ UNCHANGED <<today, riskVars, brokerVars, cycle_positions, idx, calls,
                   pureVars, brainVars>>

NextShutdown ==
    \/ CycleStart(PriceMoves, MaxCycles)
    \/ ManageClose(Views, SimAnswers)
    \/ ManageLog
    \/ ManageLearn
    \/ AnalyzeAndTrade(StreakActions, PriceMoves, MaxOpens)
    \/ HandleShutdown

SpecShutdown == Init /\ [][NextShutdown]_vars

----------------------------------------------------------------------------
(* The pattern fingerprint on pairs of market states: _generate_pattern_key *)
(* called on both, and trades remembered under either, journaled in calls. *)

\* MS_Bull with another regime confidence, other M5 / M15 trends and the
\* signal tags of the primary timeframe
MS_BullTagged ==
    [regime |-> "trending_bullish", regime_confidence |-> 55,
     trends |-> [D1 |-> "bullish", H4 |-> "bullish", M15 |-> "bullish",
                 M5 |-> "bearish"],
     momentum |-> "bullish_momentum", volatility |-> "normal",
     signals |-> {"rsi_oversold", "macd_bullish"}]

\* MS_Bull with another H4 trend
MS_BullH4 ==
    [regime |-> "trending_bullish", regime_confidence |-> 80,
     trends |-> [D1 |-> "bullish", H4 |-> "neutral", M15 |-> "neutral"],
     momentum |-> "bullish_momentum", volatility |-> "normal"]

FingerprintStates == MarketStates \cup {MS_BullTagged, MS_BullH4}

FingerprintKeys == {GeneratePatternKey(ms) : ms \in FingerprintStates}

MaxFingerprintTrades == 5

InitFingerprint ==
    /\ InitEngine
    /\ call \in {[fn |-> "_generate_pattern_key", a |-> a, b |-> b] :
                    a \in FingerprintStates, b \in FingerprintStates}
    /\ ret = NoReturn
    /\ LEARNING_RATE = 10
    /\ strategy_weights = EmptyDict
    /\ symbol_biases = EmptyDict
    /\ pattern_cache = EmptyDict
    /\ brain_state = EmptyDict
    /\ market_patterns = EmptyDict
    /\ trade_memories = [k \in FingerprintKeys |-> 0]

generate_pattern_key ==
    /\ ret' = Returned(<<GeneratePatternKey(call.a), GeneratePatternKey(call.b)>>)
    /\ UNCHANGED <<call, brainVars, today, riskVars, brokerVars, botVars>>

\* remember_trade of a winning trade closed in one of the two states
RememberTradeInState ==
    /\ Len(calls) < MaxFingerprintTrades
    /\ \E market_state \in {call.a, call.b} :
          LET memory == TradeMemory("XAUUSD", "buy", 100, market_state, EmptyDict, "")
          IN /\ RememberTradeOp(memory)
             /\ calls' = Append(calls, [op |-> "remember_trade", memory |-> memory])
    /\ UNCHANGED <<today, riskVars, brokerVars, pc, cycle_positions, idx, pureVars>>

SpecFingerprint == InitFingerprint /\ [][generate_pattern_key \/ RememberTradeInState]_vars

----------------------------------------------------------------------------
(* The RiskManager over dated calls: log_trade_open and log_trade_close are *)
(* appended to calls with the calendar day on which they are made.          *)

MaxDatedCalls == 4

\* log_trade_close: the counters are updated as they stand; the method does
\* not call _reset_daily_if_needed
DatedClose ==
    /\ Len(calls) < MaxDatedCalls
    /\ \E ticket \in RiskTickets, profit \in Profits :
          /\ LogTradeCloseOp(ticket, profit)
          /\ calls' = Append(calls, [op |-> "log_trade_close", ticket |-> ticket,
                                     profit |-> profit, day |-> today])
    /\ can_trade_result' = NoVerdict
    /\ UNCHANGED <<today, last_reset, daily_trades, next_id, daily_summary,
                   account_history, brokerVars, pc, cycle_positions, idx,
                   brainVars, pureVars>>

\* log_trade_open, likewise
DatedOpen ==
    /\ Len(calls) < MaxDatedCalls
    /\ \E ticket \in RiskTickets :
          /\ LogTradeOpenOp(ticket, "XAUUSD", "buy", daily_trades)
          /\ calls' = Append(calls, [op |-> "log_trade_open", ticket |-> ticket,
                                     profit |-> 0, day |-> today])
    /\ can_trade_result' = NoVerdict
    /\ UNCHANGED <<today, last_reset, daily_pnl, consecutive_losses, daily_summary,
                   account_history, brokerVars, pc, cycle_positions, idx,
                   brainVars, pureVars>>

NextDated ==
    \/ DatedClose
    \/ DatedOpen
    \/ can_trade
    \/ Tick(MaxRiskDay)

SpecDated == Init /\ [][NextDated]_vars

----------------------------------------------------------------------------
(* _execute_decision, one call: the decision is the dict that leaves        *)
(* analyze_market (through _validate_decision) or the fallback, with any   *)
(* combination of its optional keys.  Prices in 1/10000, lots in 1/100,    *)
(* confidences in 1/100.                                                   *)

\* dict.update: the keys of over added to d
Updated(d, over) ==
    [k \in DOMAIN d \cup DOMAIN over |-> IF k \in DOMAIN over THEN over[k] ELSE d[k]]

\* decision.get(key) is truthy
Truthy(decision, key) == key \in DOMAIN decision /\ decision[key] # 0

\* the optional keys of a reply and the value each one has when present
OptionValue == [sl_price |-> 9950000, tp_price |-> 10100000,
                sl_pips |-> 30, tp_pips |-> 90]
OrderOptions == {[k \in S |-> OptionValue[k]] : S \in SUBSET DOMAIN OptionValue}

\* lot sizes of a reply: negative, small, above the 10.0 ceiling
LotOptions == {EmptyDict} \cup {[k \in {"lot_size"} |-> lot] : lot \in {-100, 5, 2000}}

OrderReplies ==
    {Updated(Updated([action |-> action, confidence |-> confidence], options), lot) :
        action \in {"buy", "sell", "hold", "partial_close"},
        confidence \in {39, 80}, options \in OrderOptions, lot \in LotOptions}

\* account_info['free_margin']
FreeMargins == {0, 50000}

\* _validate_decision with the keys it leaves as they are: lot_size is
\* rewritten for buy and sell only
ValidatedOrder(reply, symbol, free_margin) ==
    LET decision == Updated(reply, ValidateDecision(reply, symbol))
        lot_size == Get(reply, "lot_size", 1)
        max_lot == free_margin \div 10
    IN IF Lower(reply.action) \in {"buy", "sell"}
       THEN Updated(decision,
                    [k \in {"lot_size"} |-> Max(1, Min(Min(lot_size, max_lot), 1000))])
       ELSE decision

\* the dict _fallback_strategy_decision returns for a quorum
FallbackOrder(action, symbol) ==
    [action |-> action, symbol |-> symbol, confidence |-> 80,
     sl_pips |-> 50, tp_pips |-> 100]

OrderDecisions ==
    {ValidatedOrder(reply, symbol, margin) :
        reply \in OrderReplies, symbol \in Symbols, margin \in FreeMargins}
    \cup {FallbackOrder(action, symbol) : action \in Directions, symbol \in Symbols}

\* get_symbol_info in simulation mode: the price is near 1000.0, the spread
\* 0.5 for XAUUSD and 1.0 otherwise
SymbolInfo(symbol) ==
    LET spread == IF symbol = "XAUUSD" THEN 5000 ELSE 10000
    IN [bid |-> 10000000 - spread \div 2, ask |-> 10000000 + spread \div 2]

\* pip_size of _execute_decision
PipSize(symbol) ==
    IF symbol = "XAUUSD" THEN 1000
    ELSE IF symbol \in UstechSymbols THEN 1000
    ELSE 1

NoOrder == [placed |-> FALSE, raised |-> FALSE]

\* _execute_decision up to the order request.  pip_size is bound only in
\* the branch taken when sl_price is not given; the take-profit branch
\* reads it when tp_price is not given.
OrderRequest(decision, bal, losses, pnl) ==
    IF decision.action \in {"hold", "close_all"} THEN NoOrder
    ELSE IF "symbol" \notin DOMAIN decision \/ decision.confidence < 40 THEN NoOrder
    ELSE LET symbol == decision.symbol
             info == SymbolInfo(symbol)
             sl_pips == Get(decision, "sl_pips", 50)
             risk_lot == CalculatePositionSize(bal, decision.confidence, sl_pips,
                                               symbol, losses, pnl)
             lot_size == IF Truthy(decision, "lot_size")
                         THEN Min(risk_lot, decision.lot_size) ELSE risk_lot
             price == IF decision.action = "buy" THEN info.ask ELSE info.bid
             pip_bound == ~Truthy(decision, "sl_price")
             sl == IF Truthy(decision, "sl_price") THEN decision.sl_price
                   ELSE IF decision.action = "buy"
                   THEN price - sl_pips * PipSize(symbol)
                   ELSE price + sl_pips * PipSize(symbol)
             tp_pips == Get(decision, "tp_pips", sl_pips * 2)
         IN IF ~Truthy(decision, "tp_price") /\ ~pip_bound
            THEN [placed |-> FALSE, raised |-> TRUE, error |-> "UnboundLocalError"]
            ELSE [placed |-> TRUE, raised |-> FALSE,
                  type |-> OrderType(decision.action), symbol |-> symbol,
                  volume |-> lot_size, risk_lot |-> risk_lot, price |-> price,
                  sl |-> sl,
                  tp |-> IF Truthy(decision, "tp_price") THEN decision.tp_price
                         ELSE IF decision.action = "buy"
                         THEN price + tp_pips * PipSize(symbol)
                         ELSE price - tp_pips * PipSize(symbol)]

InitOrder ==
    /\ today = 0
    /\ last_reset = 0
    /\ daily_trades = 0
    /\ daily_pnl \in {-100, 0}
    /\ consecutive_losses \in {0, 3}
    /\ can_trade_result = NoVerdict
    /\ trades = EmptyDict
    /\ next_id = 1
    /\ daily_summary = EmptyDict
    /\ account_history = 1
    /\ positions = <<>>
    /\ order_counter = FIRST_TICKET
    /\ balance = INITIAL_DEPOSIT
    /\ pc = "analyze"
    /\ cycle_positions = <<>>
    /\ idx = 1
    /\ calls = <<>>
    /\ BrainUntrained
    /\ call \in [fn : {"_execute_decision"}, decision : OrderDecisions,
                 balance : {1000, 1000000}]
    /\ ret = NoReturn

\* _execute_decision: the request, mt5.buy / mt5.sell, log_trade_open
execute_decision ==
    /\ call.fn = "_execute_decision"
    /\ ~ret.returned
    /\ LET request == OrderRequest(call.decision, call.balance, consecutive_losses,
                                   daily_pnl)
       IN /\ ret' = Returned(request)
          /\ IF request.placed
             THEN /\ ExecuteOrderOp(request.symbol, request.type)
                  /\ LogTradeOpenOp(order_counter, request.symbol, call.decision.action,
                                    daily_trades)
                  /\ calls' = <<request>>
             ELSE UNCHANGED <<brokerVars, trades, next_id, daily_trades, calls>>
    /\ UNCHANGED <<today, last_reset, daily_pnl, consecutive_losses, can_trade_result,
                   daily_summary, account_history, pc, cycle_positions, idx, call,
                   brainVars>>

SpecOrder == InitOrder /\ [][execute_decision]_vars

----------------------------------------------------------------------------
(* The RiskManager on a trades.db that may refuse a write: log_trade_open   *)
(* and log_trade_close are called with the outcome sqlite3 gives to their  *)
(* statement and commit, and appended to calls.                            *)

MaxLedgerCalls == 4

\* counters updated before the write is attempted
CountedBeforeWrite(storage) == TRUE

\* self.daily_trades += 1, self.daily_pnl += profit and the loss count come
\* after conn.commit() and conn.close(): they run only when sqlite3 has not
\* raised
CountedAfterWrite(storage) == storage = "ok"

LogTradeOpenOnStorage(ticket, storage) ==
    /\ calls' = Append(calls, [op |-> "log_trade_open", ticket |-> ticket,
                               raised |-> storage # "ok"])
    /\ IF storage = "ok"
       THEN /\ trades' = LoggedOpen(trades, ticket,
                                    OpenRow(next_id, "XAUUSD", "buy", today))
            /\ next_id' = next_id + 1
       ELSE UNCHANGED <<trades, next_id>>
    /\ daily_trades' = IF CountedAfterWrite(storage) THEN daily_trades + 1
                       ELSE daily_trades
    /\ UNCHANGED <<daily_pnl, consecutive_losses>>

LogTradeCloseOnStorage(ticket, profit, storage) ==
    /\ calls' = Append(calls, [op |-> "log_trade_close", ticket |-> ticket,
                               profit |-> profit, raised |-> storage # "ok"])
    /\ trades' = IF storage = "ok" THEN LoggedClose(trades, ticket, profit, today)
                 ELSE trades
    /\ daily_pnl' = IF CountedAfterWrite(storage) THEN daily_pnl + profit
                    ELSE daily_pnl
    /\ consecutive_losses' = IF CountedAfterWrite(storage)
                             THEN LossesAfterClose(consecutive_losses, profit)
                             ELSE consecutive_losses
    /\ UNCHANGED <<daily_trades, next_id>>

log_trade_on_storage ==
    /\ Len(calls) < MaxLedgerCalls
    /\ \E ticket \in RiskTickets, storage \in StorageOutcomes :
          \/ LogTradeOpenOnStorage(ticket, storage)
          \/ \E profit \in Profits : LogTradeCloseOnStorage(ticket, profit, storage)
    /\ can_trade_result' = NoVerdict
    /\ UNCHANGED <<today, last_reset, daily_summary, account_history, brokerVars,
                   pc, cycle_positions, idx, brainVars, pureVars>>

NextLedger ==
    \/ log_trade_on_storage
    \/ can_trade
    \/ Tick(MaxRiskDay)

SpecLedger == Init /\ [][NextLedger]_vars

----------------------------------------------------------------------------
(* The bot with the profit target: config.CONTINUE_AFTER_TARGET is drawn    *)
(* at start and kept in call; pc = "stopped" once _run_loop has left its   *)
(* while loop.                                                             *)

\* config.PRIMARY_TARGET as configured for the model
PRIMARY_TARGET == 1100

\* a target test that needs the balance above the target
TargetExceeded(bal, continue_after_target) ==
    bal > PRIMARY_TARGET /\ ~continue_after_target

\* balance >= config.PRIMARY_TARGET and not config.CONTINUE_AFTER_TARGET
TargetReached(bal, continue_after_target) ==
    bal >= PRIMARY_TARGET /\ ~continue_after_target

\* _trading_cycle up to _manage_positions.  On the target it sets
\* self.running = False and returns after log_account_snapshot and
\* get_positions; _run_loop sleeps and leaves its loop.
CycleStartToTarget(moves, maxCycles) ==
    IF TargetReached(balance, call.CONTINUE_AFTER_TARGET)
    THEN /\ pc = "idle"
         /\ account_history < maxCycles
         /\ \E profs \in [1..Len(positions) -> moves] :
               positions' = Repriced(positions, profs)
         /\ account_history' = account_history + 1
         /\ pc' = "stopped"
         /\ idx' = 0
         /\ cycle_positions' = <<>>
         /\ calls' = <<>>
         /\ can_trade_result' = NoVerdict
         /\ UNCHANGED <<today, last_reset, daily_trades, daily_pnl, consecutive_losses,
                        trades, next_id, daily_summary, order_counter, balance,
                        brainVars, pureVars>>
    ELSE CycleStart(moves, maxCycles)

InitTarget ==
    /\ InitEngine
    /\ call \in [fn : {"start"}, CONTINUE_AFTER_TARGET : BOOLEAN]
    /\ ret = NoReturn
    /\ BrainUntrained

NextTarget ==
    \/ CycleStartToTarget(PriceMoves, MaxCycles)
    \/ ManagePosition(Views, SimAnswers)
    \/ AnalyzeAndTrade(StreakActions, PriceMoves, MaxOpens)

SpecTarget == InitTarget /\ [][NextTarget]_vars

----------------------------------------------------------------------------
(* Learning Store claims *)

\* C1: after any sequence of remember_trade calls from an empty weight
\* table, every strategy weight lies within [0.1, 3.0].
C1_WeightsWithinClamp ==
    \A s \in DOMAIN strategy_weights :
        W_MIN <= strategy_weights[s] /\ strategy_weights[s] <= W_MAX

\* a weight that the upper clamp has cut back to 3.0
C1_Witness ==
    /\ TradesLearned >= 2
    /\ \E s \in DOMAIN strategy_weights : strategy_weights[s] = W_MAX

\* C2: after any sequence of remember_trade calls for a symbol, starting
\* from the default bias, the symbol's win_rate lies within [0, 1].
C2_WinRateWithinUnit ==
    \A sym \in DOMAIN symbol_biases :
        0 <= symbol_biases[sym].win_rate /\ symbol_biases[sym].win_rate <= WR_ONE

\* a symbol whose win rate has been smoothed five times and sits above 0.5
C2_Witness ==
    \E sym \in DOMAIN symbol_biases :
        symbol_biases[sym].trades >= 5 /\ symbol_biases[sym].win_rate > WR_DEFAULT

----------------------------------------------------------------------------
(* Risk Manager claims *)

\* a step in which can_trade ran and found a date other than last_reset
Rollover == can_trade_result'.called /\ today # last_reset

\* C3: in every reachable state of the Risk Manager, can_trade returns
\* false exactly when today's trade count >= MAX_DAILY_TRADES or
\* consecutive_losses >= 5, and true in every other state.
C3_CanTradeExactlyUnderLimits ==
    can_trade_result.called =>
        (can_trade_result.ok <=>
            ~(\/ daily_trades >= MAX_DAILY_TRADES
              \/ consecutive_losses >= max_consecutive_losses))

\* can_trade has refused on the breaker alone, the daily cap not reached
C3_Witness ==
    /\ can_trade_result.called
    /\ ~can_trade_result.ok
    /\ consecutive_losses >= max_consecutive_losses
    /\ daily_trades < MAX_DAILY_TRADES

\* C4: while consecutive_losses is at or above the breaker threshold, or
\* today's trade count is at or above the daily cap, no trading cycle opens
\* a position: no broker order is placed and no log_trade_open occurs.
C4_NoOpenWhileBlocked ==
    [][(order_counter' > order_counter \/ next_id' > next_id) =>
          /\ consecutive_losses < max_consecutive_losses
          /\ RolledCounter(daily_trades, last_reset, today) < MAX_DAILY_TRADES]_vars

\* _analyze_and_trade has been turned back by the breaker after a streak of
\* five losing closes, with room left under the daily cap
C4_Witness ==
    /\ can_trade_result.called
    /\ can_trade_result.reason = "Consecutive loss limit reached"
    /\ daily_trades < MAX_DAILY_TRADES
    /\ Cardinality({t \in DOMAIN trades : trades[t].status = "closed"})
          >= max_consecutive_losses

C6_SummaryRowAfterRollover ==
    [][Rollover =>
          /\ daily_trades' = 0 /\ daily_pnl' = 0
          /\ last_reset \in DOMAIN daily_summary']_vars

\* C6, amended: immediately after the rollover the daily counters are zero,
\* and a daily_summary row exists for the day last_reset exactly when the
\* ledger holds a trade closed on that day.
C6_SummaryRowIffClosedTrades ==
    [][Rollover =>
          /\ daily_trades' = 0 /\ daily_pnl' = 0
          /\ last_reset \in DOMAIN daily_summary' <=> ClosedOn(trades, last_reset) # {}]_vars

\* a rollover has run after a day on which a trade was opened and none
\* closed: counters zero, no summary row
C6_Witness ==
    /\ can_trade_result.called
    /\ last_reset = 1
    /\ daily_trades = 0 /\ daily_pnl = 0
    /\ \E t \in DOMAIN trades : trades[t].opened_at = <<0>> /\ trades[t].status = "open"
    /\ daily_summary = EmptyDict

\* C7: for every ticket, over any sequence of log_trade_open and
\* log_trade_close calls, the status goes from open to closed once and
\* never returns to open, and a repeated log_trade_close of a closed ticket
\* leaves daily_pnl and consecutive_losses as they were.
C7_ClosedExactlyOnce ==
    [][\A t \in DOMAIN trades :
          trades[t].status = "closed" =>
              /\ t \in DOMAIN trades' /\ trades'[t].status = "closed"
              /\ \A profit \in Profits :
                    LogTradeClose(t, profit) =>
                        UNCHANGED <<daily_pnl, consecutive_losses>>]_vars

\* C8: the trade ledger never loses a row: over any sequence of opens,
\* closes and restarts (the simulated broker's ticket counter back at 1000)
\* a row once written is still there, not replaced by a later log_trade_open.
C8_LedgerKeepsRows ==
    [][\A t \in DOMAIN trades :
          t \in DOMAIN trades' /\ trades'[t].id = trades[t].id]_vars

----------------------------------------------------------------------------
(* Learning Store claims: persistence *)

\* C9: after any sequence of remember_trade calls and a restart on the same
\* database, the reloaded strategy weights, symbol biases and pattern
\* statistics are identical to those held in memory before the restart.
C9_RestartRoundTrip ==
    [][RestartBrain =>
          /\ strategy_weights' = strategy_weights
          /\ symbol_biases' = symbol_biases
          /\ pattern_cache' = pattern_cache]_vars

\* C10: the persisted pattern of a fingerprint is updated on every
\* occurrence and is append-only: over recorded trades and restarts its
\* stored occurrence count never decreases and always equals the number of
\* trades recorded with that fingerprint.
C10_OccurrencesCountTrades ==
    /\ [](\A k \in DOMAIN market_patterns :
            market_patterns[k].occurrences = trade_memories[k])
    /\ [][\A k \in DOMAIN market_patterns :
            /\ k \in DOMAIN market_patterns'
            /\ market_patterns'[k].occurrences >= market_patterns[k].occurrences]_vars

\* C11: a recorded trade writes its pattern to market_patterns if and only
\* if, after that trade, the cached pattern has occurrences >= 5 and
\* (success rate >= 0.6 or average profit > 0); nothing else writes the
\* table, so no pattern with fewer than 5 cached occurrences is persisted.
C11_PersistedIffThreshold ==
    [][/\ \A k \in PatternKeys :
             trade_memories'[k] > trade_memories[k] =>
                 LET p == pattern_cache'[k]
                 IN IF /\ p.occurrences >= PATTERN_MIN_OCCURRENCES
                       /\ \/ p.wins * 10 >= 6 * p.occurrences
                          \/ p.total_profit > 0
                    THEN /\ k \in DOMAIN market_patterns'
                         /\ market_patterns'[k].occurrences = p.occurrences
                    ELSE market_patterns' = market_patterns
       /\ market_patterns' # market_patterns =>
             \E k \in PatternKeys :
                 /\ trade_memories'[k] > trade_memories[k]
                 /\ pattern_cache'[k].occurrences >= PATTERN_MIN_OCCURRENCES]_vars

\* a pattern persisted on average profit alone (success rate 0.4) at its
\* fifth occurrence, and not written again at the sixth, which fails the test
C11_Witness ==
    \E k \in DOMAIN market_patterns :
        /\ market_patterns[k].occurrences = 5
        /\ market_patterns[k].success_rate < 600
        /\ k \in DOMAIN pattern_cache
        /\ pattern_cache[k].occurrences = 6

----------------------------------------------------------------------------
(* Exit rule claims *)

\* rule (a) on the arguments of the call: the weight of the signals for the
\* position's symbol that oppose it with confidence > 0.6 is more than 0.6
\* of the weight of all signals for that symbol
ConsensusAgainst ==
    LET mine == {s \in Strategies : call.signals[s].symbol = call.position.symbol}
        against == {s \in mine :
                      /\ call.signals[s].confidence > 60
                      /\ call.signals[s].signal =
                            (IF call.position.type = "buy" THEN "sell" ELSE "buy")}
    IN /\ WeightSum(strategy_weights, mine) > 0
       /\ 10 * WeightSum(strategy_weights, against) > 6 * WeightSum(strategy_weights, mine)

\* rule (b) on the arguments of the call
RegimeAgainst ==
    /\ call.regime.regime =
          (IF call.position.type = "buy" THEN "trending_bearish" ELSE "trending_bullish")
    /\ call.regime.regime_confidence > 70

\* C12: the weighted-consensus rule is evaluated before the regime-shift
\* rule: whenever the opposing weighted fraction exceeds 0.6 the position is
\* closed with the consensus rationale, even if the regime has also shifted
\* against the position with confidence > 0.7.
C12_ConsensusBeforeRegime ==
    (ret.returned /\ ConsensusAgainst) =>
        ret.value = [close |-> TRUE,
                     reason |-> "Majority of strategies now opposing position"]

\* both rules match and the consensus rationale is returned
C12_Witness ==
    /\ ret.returned
    /\ ConsensusAgainst /\ RegimeAgainst
    /\ ret.value.reason = "Majority of strategies now opposing position"

\* C13: should_close_position returns close exactly when rule (a) or rule
\* (b) matches; in every other case the position stays open.
C13_CloseExactlyOnRules ==
    ret.returned => (ret.value.close <=> (ConsensusAgainst \/ RegimeAgainst))

\* the position stays open although a signal opposes it with confidence 0.8:
\* the other strategy's weight keeps the fraction at or under 0.6
C13_Witness ==
    /\ ret.returned
    /\ ~ret.value.close
    /\ \E s \in Strategies :
          /\ call.signals[s].symbol = call.position.symbol
          /\ call.signals[s].confidence = 80
          /\ call.signals[s].signal = (IF call.position.type = "buy" THEN "sell" ELSE "buy")

----------------------------------------------------------------------------
(* Position management claims *)

\* the step is an iteration of _manage_positions whose exit rule fired
ExitFired == pc = "manage" /\ <<pc, idx>>' # <<pc, idx>> /\ calls' # <<>>

\* C14: when an exit rule fires for an open position the engine makes, in
\* this order and within the same cycle, the broker close, log_trade_close
\* and remember_trade with the rationale of the rule that fired; when the
\* broker close fails, neither the Risk Manager nor the Learning Store is
\* updated for that position.
C14_CloseThenLogThenRemember ==
    [][ExitFired =>
          LET pos == cycle_positions[idx]
          IN /\ account_history' = account_history
             /\ calls'[1].op = "close_position" /\ calls'[1].ticket = pos.ticket
             /\ IF calls'[1].ok
                THEN /\ Len(calls') = 3
                     /\ calls'[2].op = "log_trade_close" /\ calls'[2].ticket = pos.ticket
                     /\ calls'[3].op = "remember_trade"
                     /\ ~HasTicket(positions', pos.ticket)
                     /\ trades'[pos.ticket].status = "closed"
                     /\ trades'[pos.ticket].profit = <<pos.profit>>
                     /\ TradesLearned' = TradesLearned + 1
                     /\ \E view \in StreakViews :
                           LET verdict == ShouldClosePosition(
                                              pos, SignalsFor(pos.symbol, view.signals),
                                              view.market_state, strategy_weights)
                           IN /\ verdict.close
                              /\ calls'[3].memory.ai_reasoning = verdict.reason
                              /\ calls'[3].memory.market_state = view.market_state
                ELSE /\ Len(calls') = 1
                     /\ UNCHANGED <<positions, balance, trades, daily_pnl,
                                    consecutive_losses, brainVars>>]_vars

\* the broker has refused a close, after an earlier close went through,
\* was logged and was learned
C14_Witness ==
    /\ Len(calls) = 1
    /\ ~calls[1].ok
    /\ TradesLearned >= 1
    /\ \E t \in DOMAIN trades : trades[t].status = "closed"

\* C15: whenever the engine closes a position, through the exit rules of
\* _manage_positions or through a close_all decision, the close is logged
\* in the Risk Manager (row closed) and the outcome is recorded in the
\* Learning Store.
C15_EveryCloseLoggedAndLearned ==
    [][(Len(positions') < Len(positions) /\ ~Restart) =>
          /\ \A i \in 1..Len(positions) :
                ~HasTicket(positions', positions[i].ticket) =>
                    /\ positions[i].ticket \in DOMAIN trades'
                    /\ trades'[positions[i].ticket].status = "closed"
          /\ TradesLearned' > TradesLearned]_vars

----------------------------------------------------------------------------
(* Trailing stop claims *)

\* C16: trailing never loosens a stop: over any cycle the stop-loss of a
\* long position is never lowered, and the stop-loss of a short position
\* that has one is never raised.
C16_StopNeverLoosened ==
    [][\A i \in 1..Len(positions) :
          /\ positions[i].type = "buy" => positions'[i].sl >= positions[i].sl
          /\ (positions[i].type = "sell" /\ positions[i].sl > 0) =>
                 positions'[i].sl <= positions[i].sl]_vars

\* a stop that trailing had moved to the entry price is still there after
\* the price has fallen back through the entry (long) or risen back (short)
C16_Witness ==
    /\ account_history >= 2
    /\ \E i \in 1..Len(positions) :
          /\ positions[i].sl = positions[i].open_price
          /\ positions[i].profit < 0

\* C17: once a cycle has evaluated the trailing for a position in profit,
\* a long whose price is above the entry has its stop-loss at or above the
\* entry price, and a short whose price is below the entry has its
\* stop-loss at or below the entry price.
C17_BreakEvenAfterTrail ==
    account_history > 0 =>
        \A i \in 1..Len(positions) :
            LET pos == positions[i]
            IN pos.profit > 0 =>
                 /\ (pos.type = "buy" /\ pos.current_price > pos.open_price) =>
                        pos.sl >= pos.open_price
                 /\ (pos.type = "sell" /\ pos.current_price < pos.open_price) =>
                        (pos.sl > 0 /\ pos.sl <= pos.open_price)

----------------------------------------------------------------------------
(* Position sizing claims *)

\* C18: with balance, sl_pips, symbol and the risk state fixed,
\* calculate_position_size is monotonically non-decreasing in confidence
\* (no lower confidence gives a larger size), and its result lies within
\* [0.01, 10.0] lots.
C18_SizeMonotoneAndBounded ==
    ret.returned =>
        /\ ret.value >= 1
        /\ ret.value <= 1000
        /\ \A c \in SizeConfidences :
              c <= call.confidence =>
                  CalculatePositionSize(call.balance, c, call.sl_pips, call.symbol,
                                        consecutive_losses, daily_pnl) <= ret.value

\* a size strictly inside the clamps, computed under both reductions, that
\* a lower confidence makes strictly smaller
C18_Witness ==
    /\ ret.returned
    /\ ret.value > 1
    /\ ret.value < 1000
    /\ consecutive_losses >= 3
    /\ daily_pnl < 0
    /\ \E c \in SizeConfidences :
          /\ c < call.confidence
          /\ CalculatePositionSize(call.balance, c, call.sl_pips, call.symbol,
                                   consecutive_losses, daily_pnl) < ret.value

----------------------------------------------------------------------------
(* Loss streak claims *)

RECURSIVE LossRun(_)
\* the number of closes at the end of journal since the last one with
\* profit > 0
LossRun(journal) ==
    IF journal = <<>> THEN 0
    ELSE IF journal[Len(journal)].profit > 0 THEN 0
    ELSE 1 + LossRun(SubSeq(journal, 1, Len(journal) - 1))

\* C19: after any sequence of log_trade_close calls, consecutive_losses
\* equals the number of closes since the most recent close with profit > 0,
\* a close with profit 0 counting as a loss; so it is 0 right after a close
\* with profit > 0.
C19_LossesCountClosesSinceWin ==
    consecutive_losses = LossRun(calls)

\* a win, then a break-even close and a losing close: the counter is 2
C19_Witness ==
    /\ Len(calls) >= 3
    /\ calls[Len(calls) - 2].profit > 0
    /\ calls[Len(calls) - 1].profit = 0
    /\ calls[Len(calls)].profit < 0
    /\ consecutive_losses = 2

----------------------------------------------------------------------------
(* Regime classifier claims *)

\* the rules of the classifier in their order, each with the verdict it
\* gives; scores are normalised by the total weight of the timeframes
\* present
RegimeRules(analyses) ==
    LET total == TotalWeight(analyses)
        n == Cardinality(DOMAIN analyses)
        bull == BullishSum(analyses)
        bear == BearishSum(analyses)
    IN << [matches |-> 2 * bull > 3 * bear /\ bull > 30 * total,
           verdict |-> Regime("trending_bullish", Min(100, bull \div total))],
          [matches |-> 2 * bear > 3 * bull /\ bear > 30 * total,
           verdict |-> Regime("trending_bearish", Min(100, bear \div total))],
          [matches |-> 2 * VolatilityCount(analyses, "high") > n,
           verdict |-> Regime("volatile", 60)],
          [matches |-> 2 * VolatilityCount(analyses, "low") > n,
           verdict |-> Regime("consolidating", 60)],
          [matches |-> TRUE,
           verdict |-> Regime("ranging", 50)] >>

\* C20: for the analyses of at least one timeframe, get_market_regime
\* returns the verdict of the first rule that matches, in the order
\* trending_bullish (bullish_score > 1.5 x bearish_score and > 0.3,
\* confidence min(1, bullish_score)), trending_bearish (symmetric),
\* volatile 0.6 (more than half the timeframes high), consolidating 0.6
\* (more than half low), ranging 0.5.
C20_FirstMatchingRuleWins ==
    (ret.returned /\ DOMAIN call.analyses # {}) =>
        LET rules == RegimeRules(call.analyses)
            first == CHOOSE i \in 1..Len(rules) :
                        /\ rules[i].matches
                        /\ \A j \in 1..(i - 1) : ~rules[j].matches
        IN ret.value = rules[first].verdict

\* a trend rule won over a volatility rule that matched as well, with a
\* confidence below 1
C20_Witness ==
    /\ ret.returned
    /\ DOMAIN call.analyses # {}
    /\ ret.value.regime = "trending_bearish"
    /\ ret.value.regime_confidence < 100
    /\ RegimeRules(call.analyses)[3].matches

\* every timeframe analysed reports a bullish trend of strength 1.0
AllBullishAtFullStrength(analyses) ==
    \A tf \in DOMAIN analyses :
        ContainsBullish(analyses[tf].trend) /\ analyses[tf].strength = 100

\* C21: for every non-empty set of timeframes whose trends are all bullish
\* with strength 1.0, get_market_regime returns trending_bullish with
\* confidence 1.0, whatever the volatilities; for empty input it returns
\* unknown with confidence 0.
C21_AllBullishIsTrendingBullish ==
    (ret.returned /\ AllBullishAtFullStrength(call.analyses)) =>
        ret.value = IF DOMAIN call.analyses = {}
                    THEN Regime("unknown", 0)
                    ELSE Regime("trending_bullish", 100)

\* a single minor timeframe, bullish at full strength and highly volatile,
\* classified as trending_bullish with confidence 1.0
C21_Witness ==
    /\ ret.returned
    /\ DOMAIN call.analyses = {"M15"}
    /\ AllBullishAtFullStrength(call.analyses)
    /\ call.analyses["M15"].volatility = "high"
    /\ ret.value = Regime("trending_bullish", 100)

----------------------------------------------------------------------------
(* Learning update claims *)

\* the step is a remember_trade call
Remembered == TradesLearned' = TradesLearned + 1

\* the factor of the learning update as <<numerator, denominator>>, a being
\* lr / 1000
LearningFactor(outcome, agrees, lr) ==
    IF outcome = "win"
    THEN IF agrees THEN <<1000 + lr, 1000>> ELSE <<2000 - lr, 2000>>
    ELSE IF agrees THEN <<1000 - lr, 1000>> ELSE <<2000 + lr, 2000>>

\* C22: for every strategy in the closed trade's signal snapshot the update
\* multiplies its weight (1.0 when it had none) by (1+a) on a win where the
\* signal equals the direction, (1-a/2) on a win where it differs, (1-a) on
\* a loss where it equals the direction and (1+a/2) on a loss where it
\* differs, then clamps to [0.1, 3.0]; a strategy absent from the snapshot
\* keeps its weight.
C22_WeightUpdateRule ==
    [][Remembered =>
          LET memory == calls'[1].memory
          IN \A s \in Strategies :
                IF s \in DOMAIN memory.strategy_signals
                THEN LET w == Get(strategy_weights, s, W_DEFAULT)
                         f == LearningFactor(memory.outcome,
                                             memory.strategy_signals[s] = memory.direction,
                                             LEARNING_RATE)
                     IN strategy_weights'[s] = Max(W_MIN, Min(W_MAX, (w * f[1]) \div f[2]))
                ELSE IF s \in DOMAIN strategy_weights
                     THEN strategy_weights'[s] = strategy_weights[s]
                     ELSE s \notin DOMAIN strategy_weights']_vars

\* after a win on which one strategy agreed and the other, holding a learned
\* weight, was absent from the snapshot
C22_Witness ==
    /\ Len(calls) = 1
    /\ calls[1].memory.outcome = "win"
    /\ \E s \in DOMAIN calls[1].memory.strategy_signals :
          /\ calls[1].memory.strategy_signals[s] = calls[1].memory.direction
          /\ strategy_weights[s] > W_DEFAULT
    /\ \E s \in DOMAIN strategy_weights :
          /\ s \notin DOMAIN calls[1].memory.strategy_signals
          /\ strategy_weights[s] # W_DEFAULT

\* C23: while the clamp is not hit, a strategy that agrees with the
\* direction of a winning trade, or disagrees with the direction of a
\* losing trade, has its weight strictly increased by that trade; so it
\* increases after each of 3 such trades in a row.
C23_WeightStrictlyIncreases ==
    [][Remembered =>
          LET memory == calls'[1].memory
          IN \A s \in DOMAIN memory.strategy_signals :
                LET w == Get(strategy_weights, s, W_DEFAULT)
                    agrees == memory.strategy_signals[s] = memory.direction
                    f == LearningFactor(memory.outcome, agrees, LEARNING_RATE)
                IN ( /\ (memory.outcome = "win") = agrees
                     /\ w * f[1] <= W_MAX * f[2] )
                   => strategy_weights'[s] > w]_vars

\* three winning trades in a row on which the strategy agreed: 1.0, 1.01,
\* 1.0201, 1.030301
C23_Witness ==
    /\ TradesLearned = 3
    /\ LEARNING_RATE = 10
    /\ \E s \in DOMAIN strategy_weights : strategy_weights[s] = 1030

----------------------------------------------------------------------------
(* Insight claims *)

\* C24: generate_market_insight follows a strict priority: the
\* pattern-match insight, confidence min(0.9, success_rate), whenever the
\* fingerprint of the state has at least 3 occurrences in the pattern
\* cache; otherwise the symbol-bias insight, confidence
\* min(0.8, 0.5 + trades/100), whenever the symbol has at least 10 recorded
\* trades; otherwise the gathering-data insight with confidence 0.3.
C24_InsightPriority ==
    ret.returned =>
        LET key == GeneratePatternKey(call.market_state)
            seen == IF key \in DOMAIN pattern_cache
                    THEN pattern_cache[key].occurrences ELSE 0
            recorded == IF call.symbol \in DOMAIN symbol_biases
                        THEN symbol_biases[call.symbol].trades ELSE 0
        IN IF seen >= 3
           THEN /\ ret.value.insight_type = "pattern_match"
                /\ ret.value.confidence =
                       Min(900, (pattern_cache[key].wins * 1000) \div seen)
           ELSE IF recorded >= 10
           THEN /\ ret.value.insight_type = "symbol_analysis"
                /\ ret.value.confidence = Min(800, 500 + 10 * recorded)
           ELSE /\ ret.value.insight_type = "learning"
                /\ ret.value.confidence = 300

\* a pattern seen 3 times, all lost, wins over the bias of a symbol with
\* 10 or more trades: a pattern-match insight of confidence 0
C24_Witness ==
    /\ ret.returned
    /\ ret.value = Insight("pattern_match", 0)
    /\ GeneratePatternKey(call.market_state) \in DOMAIN pattern_cache
    /\ pattern_cache[GeneratePatternKey(call.market_state)].occurrences = 3
    /\ call.symbol \in DOMAIN symbol_biases
    /\ symbol_biases[call.symbol].trades >= 10

----------------------------------------------------------------------------
(* Advisor boundary claims *)

\* C25: when the Advisor call fails (error or timeout), analyze_market
\* returns a decision with action hold and confidence 0, the call returns
\* to the cycle, and the cycle goes on to the fallback aggregation of the
\* strategy signals for that symbol.
C25_AdvisorFailureIsHold ==
    (ret.returned /\ ~ret.value.gated /\ ~call.advisor.ok) =>
        /\ ret.value.advised.action = "hold"
        /\ ret.value.advised.confidence = 0
        /\ ret.value.fallback
        /\ ret.value.decision =
               FallbackStrategyDecision(call.signals, strategy_weights, "XAUUSD")

\* the Advisor failed and the fallback, on four buy votes, opened a buy
C25_Witness ==
    /\ ret.returned
    /\ ~ret.value.gated
    /\ ~call.advisor.ok
    /\ ret.value.decision.action = "buy"
    /\ Len(positions) = Len(cycle_positions) + 1
    /\ positions[Len(positions)].type = "buy"

\* C26: the engine opens a buy order only for action buy and a sell order
\* only for action sell; for every other action (hold, close_all,
\* partial_close, an unrecognised string), at any confidence, no new
\* position is opened.
C26_OnlyBuyAndSellOpen ==
    (ret.returned /\ ~ret.value.gated) =>
        \A i \in 1..Len(positions) :
            (\A j \in 1..Len(cycle_positions) :
                  cycle_positions[j].ticket # positions[i].ticket)
            => /\ ret.value.decision.action \in {"buy", "sell"}
               /\ positions[i].type = ret.value.decision.action

----------------------------------------------------------------------------
(* Restart and persistence claims *)

\* what can_trade would return if it were called now
VerdictNow == CanTradeVerdict(RolledCounter(daily_trades, last_reset, today),
                              consecutive_losses)

\* C27: a process restart refreshes the gating counters of the Risk
\* Manager (today's trade count, today's P/L, the consecutive-loss count)
\* from the stored ledger, so can_trade returns the same verdict right
\* after the restart as right before it.
C27_VerdictSurvivesRestart ==
    [][Restart => VerdictNow' = VerdictNow]_vars

\* C28: can_trade never depends on persistence: in every state, the first
\* call after a change of day included, it returns its verdict without
\* performing a storage operation, and a failure of the storage cannot
\* make it fail.
C28_CanTradeIndependentOfStorage ==
    [][can_trade_on_storage => ret'.returned /\ calls' = <<>>]_vars

\* the journal of a step in which log_trade_close raised
PersistFailed(journal) ==
    \E i \in 1..Len(journal) :
        journal[i].op = "log_trade_close" /\ journal[i].raised

\* C29: when persisting the close of a trade fails in the Risk Manager, the
\* engine performs no Learning Store update for that trade: remember_trade
\* is not called, no TradeMemory is appended and no strategy weight, symbol
\* bias or pattern changes.
C29_NoLearningOnFailedPersist ==
    [][PersistFailed(calls') =>
         /\ UNCHANGED brainVars
         /\ \A i \in 1..Len(calls') : calls'[i].op # "remember_trade"]_vars

\* a close was refused by the storage after the broker had closed the
\* position: the ledger row is still open and the brain has learned nothing
\* from it
C29_Witness ==
    /\ PersistFailed(calls)
    /\ pc = "idle"
    /\ ~HasTicket(positions, calls[1].ticket)
    /\ trades[calls[1].ticket].status = "open"

\* C30: every read of a strategy weight returns a value within [0.1, 3.0],
\* also when the value loaded from storage lies outside that range:
\* get_strategy_weight never returns a stored out-of-range value unchanged.
C30_ReadWeightWithinBounds ==
    (call.fn = "get_strategy_weight" /\ ret.returned) =>
        ret.value \in W_MIN..W_MAX

----------------------------------------------------------------------------
(* Control loop claims *)

\* C31: a failure while managing one position or analysing one symbol skips
\* only that item: the cycle goes on with the remaining positions and the
\* configured symbols, and the control loop runs later cycles.
C31_FailureSkipsOnlyThatItem ==
    [][PersistFailed(calls') => pc' \in {"manage", "analyze"}]_vars

\* C32: a shutdown signal that arrives while a cycle is mutating state for
\* a position (after log_trade_close, before remember_trade has updated and
\* saved the learned state) does not tear the process down until the
\* mutations of that item are complete.
C32_ShutdownWaitsForItem ==
    [][pc' = "exited" => pc \notin {"log_trade_close", "remember_trade"}]_vars

----------------------------------------------------------------------------
(* Fingerprint claims *)

\* the inputs the fingerprint is a function of
KeyInputs(market_state) ==
    [regime |-> market_state.regime,
     trends |-> [tf \in DOMAIN market_state.trends \cap {"D1", "H4", "H1"} |->
                    market_state.trends[tf]],
     momentum |-> market_state.momentum,
     volatility |-> market_state.volatility]

\* the inputs of the states of the trades remembered so far
InputsRemembered ==
    {KeyInputs(calls[i].memory.market_state) : i \in 1..Len(calls)}

\* C33: the pattern fingerprint is a function of the regime, the D1 / H4 /
\* H1 trends, the momentum and the volatility only: two market states that
\* agree on them get the same fingerprint whatever their other fields, and
\* each fingerprint has at most one pattern entry, in the cache and in the
\* market_patterns table: no more entries than remembered inputs.
C33_FingerprintOfKeyInputsOnly ==
    /\ (ret.returned /\ KeyInputs(call.a) = KeyInputs(call.b)) =>
           ret.value[1] = ret.value[2]
    /\ Cardinality(DOMAIN pattern_cache) <= Cardinality(InputsRemembered)
    /\ Cardinality(DOMAIN market_patterns) <= Cardinality(InputsRemembered)

\* two states that differ in confidence, M5 / M15 trends and signal tags
\* only were fingerprinted, trades were remembered under both, and the one
\* pattern they share has reached the table
C33_Witness ==
    /\ ret.returned
    /\ call.a = MS_Bull /\ call.b = MS_BullTagged
    /\ \E i, j \in 1..Len(calls) :
          /\ calls[i].memory.market_state = MS_Bull
          /\ calls[j].memory.market_state = MS_BullTagged
    /\ Cardinality(DOMAIN market_patterns) = 1

----------------------------------------------------------------------------
(* Engine claims *)

\* C34: the number of open positions never exceeds MAX_OPEN_POSITIONS, also
\* within a cycle that processes several symbols against the position list
\* fetched at the start of the cycle.
C34_OpenPositionsWithinCap == Len(positions) <= MAX_OPEN_POSITIONS

----------------------------------------------------------------------------
(* Calendar day claims *)

RECURSIVE ProfitOn(_, _)
\* the profit of the closes of journal made on day
ProfitOn(journal, day) ==
    IF journal = <<>> THEN 0
    ELSE LET last == journal[Len(journal)]
         IN (IF last.op = "log_trade_close" /\ last.day = day THEN last.profit ELSE 0)
            + ProfitOn(SubSeq(journal, 1, Len(journal) - 1), day)

\* the number of opens of journal made on day
OpensOn(journal, day) ==
    Cardinality({i \in 1..Len(journal) :
                    journal[i].op = "log_trade_open" /\ journal[i].day = day})

\* C35: trade activity is attributed to the calendar day on which it
\* happens: once can_trade has rolled the counters over to today, the
\* running P/L and the trade count are those of today's closes and opens,
\* including the ones made after midnight and before that can_trade call.
C35_ActivityCountedOnItsDay ==
    last_reset = today =>
        /\ daily_pnl = ProfitOn(calls, today)
        /\ daily_trades = OpensOn(calls, today)

----------------------------------------------------------------------------
(* Loss breaker claims *)

\* C36: within one process run, once consecutive_losses has reached the
\* breaker threshold can_trade refuses, and the count leaves the threshold
\* only by a log_trade_close with profit > 0; can_trade's daily rollover
\* zeroes today's trade count and running P/L and leaves the
\* consecutive-loss count unchanged.
C36_BreakerHeldUntilWin ==
    [][/\ (consecutive_losses >= max_consecutive_losses /\ can_trade_result'.called)
            => ~can_trade_result'.ok
       /\ (consecutive_losses >= max_consecutive_losses
             /\ consecutive_losses' < max_consecutive_losses)
            => /\ Len(calls') = Len(calls) + 1
               /\ calls'[Len(calls')].profit > 0
       /\ can_trade_result'.called
            => /\ consecutive_losses' = consecutive_losses
               /\ today # last_reset => (daily_trades' = 0 /\ daily_pnl' = 0)]_vars

\* the breaker tripped, midnight passed, can_trade rolled the day over and
\* still refused on the losses
C36_Witness ==
    /\ consecutive_losses >= max_consecutive_losses
    /\ daily_pnl = 0
    /\ last_reset = today
    /\ today > 0
    /\ can_trade_result.called
    /\ can_trade_result.reason = "Consecutive loss limit reached"

----------------------------------------------------------------------------
(* Order claims *)

\* C37: for every decision with action buy or sell and confidence >= 0.4,
\* whichever of sl_price, tp_price, sl_pips and tp_pips it carries (sl_price
\* without tp_price included), _execute_decision computes a stop-loss and a
\* take-profit and reaches the order placement without raising.
C37_OrderPlacedForAnyOptionalFields ==
    (ret.returned /\ call.decision.action \in {"buy", "sell"}
       /\ call.decision.confidence >= 40)
        => (ret.value.placed /\ ~ret.value.raised)

\* C38: the volume of every order sent to the broker is within [0.01, 10.0]
\* and never exceeds the lot size the Risk Manager computed for the
\* decision: a lot size supplied by the Advisor can only reduce it.
C38_VolumeWithinLimits ==
    (ret.returned /\ ret.value.placed)
        => (ret.value.volume \in 1..1000 /\ ret.value.volume <= ret.value.risk_lot)

----------------------------------------------------------------------------
(* Ledger write claims *)

\* the step appended a ledger call whose write raised
WriteFailed ==
    /\ Len(calls') = Len(calls) + 1
    /\ calls'[Len(calls')].raised

\* C39: a failed ledger write leaves the in-memory counters of the Risk
\* Manager unchanged: a log_trade_open whose write fails does not increment
\* today's trade count, a log_trade_close whose write fails changes neither
\* the running P/L nor the consecutive-loss count.
C39_FailedWriteLeavesCounters ==
    [][WriteFailed => UNCHANGED <<daily_trades, daily_pnl, consecutive_losses>>]_vars

\* a losing close was refused by the storage after an open and a losing
\* close had been written: the counters still show one trade, one loss
C39_Witness ==
    /\ Len(calls) = 3
    /\ calls[1].op = "log_trade_open" /\ ~calls[1].raised
    /\ calls[2].op = "log_trade_close" /\ ~calls[2].raised /\ calls[2].profit < 0
    /\ calls[3].op = "log_trade_close" /\ calls[3].raised /\ calls[3].profit < 0
    /\ daily_trades = 1
    /\ daily_pnl = calls[2].profit
    /\ consecutive_losses = 1

----------------------------------------------------------------------------
(* Profit target claims *)

\* the tickets of the open positions
OpenTickets(ps) == {ps[i].ticket : i \in 1..Len(ps)}

\* C40: when the balance is at or above PRIMARY_TARGET and
\* CONTINUE_AFTER_TARGET is false, the cycle that observes it manages no
\* position and opens no trade, and the control loop ends without starting
\* another cycle.
C40_StopsOnTarget ==
    [][/\ (pc = "idle" /\ pc' # "idle" /\ balance >= PRIMARY_TARGET
             /\ ~call.CONTINUE_AFTER_TARGET)
            => /\ pc' = "stopped"
               /\ OpenTickets(positions') = OpenTickets(positions)
               /\ UNCHANGED <<trades, next_id, order_counter, balance, daily_trades,
                              daily_pnl, consecutive_losses, brainVars>>
       /\ pc = "stopped"
            => /\ pc' = "stopped"
               /\ UNCHANGED <<account_history, positions, trades, brainVars>>]_vars

\* the loop has ended on the target with a position still open
C40_Witness ==
    /\ pc = "stopped"
    /\ balance >= PRIMARY_TARGET
    /\ ~call.CONTINUE_AFTER_TARGET
    /\ Len(positions) > 0

====
